---- MODULE Spec2Model ----
(***************************************************************************)
(* A model of the TinyDSL compile-and-execute engines: the TinyCalc unit   *)
(* graph solver, the TinyMath evaluator and the GLI compiler and runner.   *)
(***************************************************************************)
EXTENDS Integers, Sequences, FiniteSets, TLC

\* ------------------------------------------------------------------------
\* Bounds of the model
\* ------------------------------------------------------------------------
MaxQty == 3
MaxAmount == 2
MaxDefines == 3
MaxConverts == 1
MaxStmts == 3
MaxRuns == 2
MaxCount == 2
MaxDepth == 2
MaxFrames == 6
MaxNodesAll == 3
MaxNodesRepeat == 4
MaxNodesFunc == 6
MaxNodesFail == 4
MaxNodesTransform == 3
MaxNodesRedefine == 5
MaxNumber == 2
MaxMathRuns == 2
MaxMathStmts == 2
MaxLexiStmts == 4
MaxLexiCount == 2
MaxMemOps == 5
MaxNodesCond == 5
MaxNodesNested == 4
MaxSteps == 12
MaxEpisodes == 2

VARIABLES
    calcPc,      \* "off" | "idle" | "running": the position of LarkTinyCalcParser.parse
    units,       \* TinyCalcTransformer.units, an insertion-ordered dict of dicts
    output,      \* TinyCalcTransformer.output
    calcResult,  \* what the last parse call handed to its caller
    runs,        \* parse calls begun on this LarkTinyCalcParser
    ndefs,       \* define statements reduced so far, over all parse calls
    nconvs,      \* convert statements reduced so far, over all parse calls
    nconv,       \* convert statements of the parse call in progress that appended a line
    lastConv,    \* the last call of _convert made by convert_stmt and its outcome
    defs,        \* the define statements that stored their edges, in order
    lim          \* how many defines, converts and parse calls the input holds

calcVars == <<calcPc, units, output, calcResult, runs, ndefs, nconvs, nconv, lastConv,
              defs, lim>>

VARIABLES
    gliPc,              \* "off" | "compile" | "run" | "done" | "error"
    version,            \* _GLICompiler.version
    avail,              \* the statements of the source not visited yet
    left,               \* how many more statements the source may hold
    open,               \* the blocks the transformer is inside of, outermost first
    ops,                \* the closures made so far; a closure is named by its index
    program,            \* _GLICompiler.program
    functions,          \* _GLICompiler.functions: name -> the definition registered
    shapes,             \* _GLICompiler.shapes
    context,            \* _GLICompiler.context
    variables,          \* _GLICompiler.variables
    i,                  \* _GLICompiler.i
    current_transform,  \* _GLICompiler.current_transform
    transform_stack,    \* _GLICompiler.transform_stack
    frames,             \* the closures running, outermost first
    lastReturn,         \* the variables around the last function call that returned
    executed,           \* every closure called so far, in the order of the calls
    gliResult           \* what LarkGLIParser.parse handed to its caller

runVars == <<shapes, context, variables, i, current_transform, transform_stack, frames,
             lastReturn, executed>>

gliVars == <<gliPc, version, avail, left, open, ops, program, functions, runVars, gliResult>>

VARIABLES
    mathPc,         \* "off" | "idle" | "running"
    mathVariables,  \* TinyMathTransformer.variables
    results,        \* TinyMathTransformer.results
    mathResult,     \* what LarkTinyMathParser.parse handed to its caller
    mathRuns,       \* parse calls so far
    mathLeft,        \* how many more statements the source of this run may hold
    mathLast            \* the last statement handled: what it read, what came of it

mathVars == <<mathPc, mathVariables, results, mathResult, mathRuns, mathLeft, mathLast>>

\* Lexi: one LexiTransformer and the tree it is transforming
VARIABLES
    lexiPc,             \* "off", "parse", "done"
    lexiVersion,        \* 'v1' or 'v2'
    lexiOutput,         \* self.output
    lexiContext,        \* self.context: the task_<name> entries
    lexiValues,         \* self.context: the other entries
    lexiMemory,         \* self.memory
    lexiOpen,           \* the block whose statements are being visited
    lexiBlocks,         \* every repeat_block and if_block handled so far
    lexiLeft,           \* statements of the source not visited yet
    lexiCalls,          \* every call_stmt handled so far: the name, what it found
    lexiResult          \* what parse returned

lexiVars == <<lexiPc, lexiVersion, lexiOutput, lexiContext, lexiValues, lexiMemory,
              lexiOpen, lexiBlocks, lexiLeft, lexiCalls, lexiResult>>

\* JSONFileMemory: a file and the instances opened on it
VARIABLES
    memFile,            \* the backing file: missing, not JSON, or a JSON object
    memStores,          \* per instance: whether it is constructed, auto_save, self._store
    memWriters,         \* the instances that call set, delete and clear
    memOps,             \* how many operations were called so far
    memUnseen,          \* per instance: what the others wrote since it last loaded
    memLast             \* the last operation, the one before it, and what they left

memVars == <<memFile, memStores, memWriters, memOps, memUnseen, memLast>>

\* DSLEnv: one environment and its callers
VARIABLES
    max_steps,          \* self.max_steps
    envProgram,         \* self.program, the tokens emitted in the episode
    current_step,       \* self.current_step
    done,               \* self.done
    coreRuns,           \* how often the episode has run the program so far
    episodes,           \* how many episodes were begun by reset
    envLast             \* the last call of reset or step and what it found

envVars == <<max_steps, envProgram, current_step, done, coreRuns, episodes, envLast>>

vars == <<calcVars, gliVars, mathVars, lexiVars, memVars, envVars>>

\* ------------------------------------------------------------------------
\* Values
\* ------------------------------------------------------------------------

\* Unit names are strings; a string is a sequence of characters so that
\* endswith('s') and [:-1] are computed.
UnitA == <<"a">>
UnitB == <<"b">>
UnitAs == <<"a", "s">>
UnitNames == {UnitA, UnitB, UnitAs}
UnitC == <<"c">>
UnitD == <<"d">>
\* four unit names, for graphs of several components and of several paths
PathUnitNames == {UnitA, UnitB, UnitC, UnitD}

\* the numbers of `define q1 A = q2 B`: 1 A = k B, and 0 on either side
Quantities1 == {0, 1}
Quantities2 == {0} \cup 2..MaxQty
Amounts == 1..MaxAmount

RECURSIVE GCD(_, _)
GCD(a, b) == IF b = 0 THEN a ELSE GCD(b, a % b)

\* A float, kept exactly as a reduced fraction <<numerator, denominator>>.
Rat(n, d) == LET g == GCD(n, d) IN <<n \div g, d \div g>>
FloatOf(n) == <<n, 1>>
FMul(x, y) == Rat(x[1] * y[1], x[2] * y[2])
FDiv(x, y) == Rat(x[1] * y[2], x[2] * y[1])
FIsZero(x) == x[1] = 0

\* ------------------------------------------------------------------------
\* Insertion-ordered dicts: a sequence of <<key, value>> entries
\* ------------------------------------------------------------------------
DictKeys(d) == {d[k][1] : k \in 1..Len(d)}
DictHas(d, key) == \E k \in 1..Len(d) : d[k][1] = key
DictIdx(d, key) == CHOOSE k \in 1..Len(d) : d[k][1] = key
DictGet(d, key) == d[DictIdx(d, key)][2]
\* d[key] = val: a new key goes last, an old key keeps its place
DictSet(d, key, val) ==
    IF DictHas(d, key)
    THEN [d EXCEPT ![DictIdx(d, key)] = <<key, val>>]
    ELSE Append(d, <<key, val>>)

\* ------------------------------------------------------------------------
\* TinyCalcTransformer
\* ------------------------------------------------------------------------
NoErr == [type |-> "none", unit |-> <<>>, other |-> <<>>, hint |-> FALSE]
UnknownUnit(name, hint) == [type |-> "UnknownUnit", unit |-> name, other |-> <<>>, hint |-> hint]
NoConversionPath(from, to) == [type |-> "NoPath", unit |-> from, other |-> to, hint |-> FALSE]
ZeroDivision == [type |-> "ZeroDivision", unit |-> <<>>, other |-> <<>>, hint |-> FALSE]

\* define_stmt storing the forward factor in both directions
DefineEdges_SameFactor(us, u1, u2, forward, reverse) ==
    LET us1 == IF DictHas(us, u1) THEN us ELSE DictSet(us, u1, <<>>)
        us2 == IF DictHas(us1, u2) THEN us1 ELSE DictSet(us1, u2, <<>>)
        us3 == DictSet(us2, u1, DictSet(DictGet(us2, u1), u2, forward))
    IN  DictSet(us3, u2, DictSet(DictGet(us3, u2), u1, forward))

\* define_stmt, lines 43-50, for factors already computed
DefineEdges(us, u1, u2, forward, reverse) ==
    LET us1 == IF DictHas(us, u1) THEN us ELSE DictSet(us, u1, <<>>)
        us2 == IF DictHas(us1, u2) THEN us1 ELSE DictSet(us1, u2, <<>>)
        us3 == DictSet(us2, u1, DictSet(DictGet(us2, u1), u2, forward))
    IN  DictSet(us3, u2, DictSet(DictGet(us3, u2), u1, reverse))

EndsWithS(name) == Len(name) > 0 /\ name[Len(name)] = "s"
DropLast(name) == SubSeq(name, 1, Len(name) - 1)

\* a hint for every name that ends in s
PluralHint_AnyPlural(us, name) == EndsWithS(name)

\* the pluralization check of _convert
PluralHint(us, name) == EndsWithS(name) /\ DictHas(us, DropLast(name))

\* new_amount = factor: the amount carried so far is dropped
RECURSIVE Enqueue_NoCarry(_, _, _, _)
Enqueue_NoCarry(nbrs, k, visited, amt) ==
    IF k > Len(nbrs) THEN <<>>
    ELSE IF nbrs[k][1] \notin visited
         THEN <<[u |-> nbrs[k][1], amt |-> nbrs[k][2]]>>
                  \o Enqueue_NoCarry(nbrs, k + 1, visited, amt)
         ELSE Enqueue_NoCarry(nbrs, k + 1, visited, amt)

\* every neighbour is enqueued, visited or not
RECURSIVE Enqueue_Revisit(_, _, _, _)
Enqueue_Revisit(nbrs, k, visited, amt) ==
    IF k > Len(nbrs) THEN <<>>
    ELSE <<[u |-> nbrs[k][1], amt |-> FMul(amt, nbrs[k][2])]>>
             \o Enqueue_Revisit(nbrs, k + 1, visited, amt)

\* the neighbours of cur that the BFS enqueues, in dict order
RECURSIVE Enqueue(_, _, _, _)
Enqueue(nbrs, k, visited, amt) ==
    IF k > Len(nbrs) THEN <<>>
    ELSE IF nbrs[k][1] \notin visited
         THEN <<[u |-> nbrs[k][1], amt |-> FMul(amt, nbrs[k][2])]>>
                  \o Enqueue(nbrs, k + 1, visited, amt)
         ELSE Enqueue(nbrs, k + 1, visited, amt)

Queued_AtFront(rest, new) == new \o rest

\* queue.append(...) for each neighbour: the new entries go behind those waiting
Queued(rest, new) == rest \o new

\* the while loop of _convert; expanded and enq record what the search did
RECURSIVE BFS(_, _, _, _, _, _)
BFS(us, queue, visited, to, expanded, enq) ==
    IF queue = <<>>
    THEN [ok |-> FALSE, val |-> <<0, 1>>, expanded |-> expanded, enq |-> enq]
    ELSE LET cur == Head(queue)
             rest == Tail(queue)
         IN  IF cur.u = to
             THEN [ok |-> TRUE, val |-> cur.amt, expanded |-> expanded, enq |-> enq]
             ELSE IF cur.u \in visited
                  THEN BFS(us, rest, visited, to, expanded, enq)
                  ELSE LET vis == visited \cup {cur.u}
                           nbrs == IF DictHas(us, cur.u) THEN DictGet(us, cur.u) ELSE <<>>
                           new == Enqueue(nbrs, 1, vis, cur.amt)
                       IN  BFS(us, Queued(rest, new), vis, to,
                               Append(expanded, cur.u), enq + Len(new))

ConvOk(v, r) == [ok |-> TRUE, val |-> v, err |-> NoErr, searched |-> TRUE,
                 expanded |-> r.expanded, enq |-> r.enq]
ConvFail(e, searched, r) == [ok |-> FALSE, val |-> <<0, 1>>, err |-> e, searched |-> searched,
                             expanded |-> r.expanded, enq |-> r.enq]
NoSearch == [ok |-> FALSE, val |-> <<0, 1>>, expanded |-> <<>>, enq |-> 0]

\* _convert with the unknown-unit checks ahead of the from == to shortcut
Convert_CheckFirst(us, amount, from, to) ==
    IF ~DictHas(us, from)
    THEN ConvFail(UnknownUnit(from, PluralHint(us, from)), FALSE, NoSearch)
    ELSE IF ~DictHas(us, to)
    THEN ConvFail(UnknownUnit(to, PluralHint(us, to)), FALSE, NoSearch)
    ELSE IF from = to
    THEN [ok |-> TRUE, val |-> amount, err |-> NoErr, searched |-> FALSE,
          expanded |-> <<>>, enq |-> 0]
    ELSE LET r == BFS(us, <<[u |-> from, amt |-> amount]>>, {}, to, <<>>, 1)
         IN  IF r.ok THEN ConvOk(r.val, r)
             ELSE ConvFail(NoConversionPath(from, to), TRUE, r)

\* _convert whose search, when the queue empties, returns the amount as it came
Convert_NoPathGivesAmount(us, amount, from, to) ==
    IF from = to
    THEN [ok |-> TRUE, val |-> amount, err |-> NoErr, searched |-> FALSE,
          expanded |-> <<>>, enq |-> 0]
    ELSE IF ~DictHas(us, from)
    THEN ConvFail(UnknownUnit(from, PluralHint(us, from)), FALSE, NoSearch)
    ELSE IF ~DictHas(us, to)
    THEN ConvFail(UnknownUnit(to, PluralHint(us, to)), FALSE, NoSearch)
    ELSE LET r == BFS(us, <<[u |-> from, amt |-> amount]>>, {}, to, <<>>, 1)
         IN  IF r.ok THEN ConvOk(r.val, r) ELSE ConvOk(amount, r)

\* _convert(amount, from_unit, to_unit)
Convert(us, amount, from, to) ==
    IF from = to
    THEN [ok |-> TRUE, val |-> amount, err |-> NoErr, searched |-> FALSE,
          expanded |-> <<>>, enq |-> 0]
    ELSE IF ~DictHas(us, from)
    THEN ConvFail(UnknownUnit(from, PluralHint(us, from)), FALSE, NoSearch)
    ELSE IF ~DictHas(us, to)
    THEN ConvFail(UnknownUnit(to, PluralHint(us, to)), FALSE, NoSearch)
    ELSE LET r == BFS(us, <<[u |-> from, amt |-> amount]>>, {}, to, <<>>, 1)
         IN  IF r.ok THEN ConvOk(r.val, r)
             ELSE ConvFail(NoConversionPath(from, to), TRUE, r)

NoResult == [kind |-> "none", out |-> <<>>, err |-> NoErr]
NoConv == [called |-> FALSE, amount |-> <<0, 1>>, from |-> <<>>, to |-> <<>>,
           r |-> ConvFail(NoErr, FALSE, NoSearch), before |-> <<>>, after |-> <<>>,
           defs |-> <<>>, outBefore |-> <<>>]

\* LarkTinyCalcParser.parse, the except branch: the error is re-raised as one ValueError
ParseError_PartialOutput(e) == [kind |-> "error", out |-> output, err |-> e]

ParseError(e) == [kind |-> "error", out |-> <<>>, err |-> e]

\* TinyCalcTransformer.start
StartResult(out) == [kind |-> "ok", out |-> out, err |-> NoErr]

\* LarkTinyCalcParser.parse is entered: the transformer made by __init__ is reused
CalcParse ==
    /\ calcPc = "idle"
    /\ runs < lim.runs
    /\ calcPc' = "running"
    /\ runs' = runs + 1
    /\ nconv' = 0
    /\ UNCHANGED <<units, output, calcResult, ndefs, nconvs, lastConv, defs, lim>>

define_stmt ==
    /\ calcPc = "running"
    /\ ndefs < lim.defs
    /\ ndefs + nconvs < lim.stmts
    /\ lim.ordered => nconvs = 0
    /\ \E q1 \in lim.q1s, q2 \in lim.q2s, u1 \in lim.names, u2 \in lim.names :
         IF q1 = 0 \/ q2 = 0
         THEN /\ calcPc' = "idle"
              /\ calcResult' = ParseError(ZeroDivision)
              /\ UNCHANGED <<units, defs>>
         ELSE /\ units' = DefineEdges(units, u1, u2,
                                      FDiv(FloatOf(q2), FloatOf(q1)),
                                      FDiv(FloatOf(q1), FloatOf(q2)))
              /\ defs' = Append(defs, [u1 |-> u1, u2 |-> u2, q1 |-> q1, q2 |-> q2])
              /\ UNCHANGED <<calcPc, calcResult>>
    /\ ndefs' = ndefs + 1
    /\ UNCHANGED <<output, runs, nconvs, nconv, lastConv, lim>>

convert_stmt ==
    /\ calcPc = "running"
    /\ nconvs < lim.convs
    /\ ndefs + nconvs < lim.stmts
    /\ UNCHANGED <<units, runs, ndefs, defs, lim>>
    /\ \E a \in lim.amounts, from \in lim.names, to \in lim.names :
         LET r == Convert(units, FloatOf(a), from, to)
         IN  /\ lastConv' = [called |-> TRUE, amount |-> FloatOf(a), from |-> from,
                             to |-> to, r |-> r, before |-> units, after |-> units',
                             defs |-> defs, outBefore |-> output]
             /\ IF r.ok
                THEN /\ output' = Append(output, <<r.val, to>>)
                     /\ nconv' = nconv + 1
                     /\ UNCHANGED <<calcPc, calcResult>>
                ELSE /\ calcPc' = "idle"
                     /\ calcResult' = ParseError(r.err)
                     /\ UNCHANGED <<output, nconv>>
    /\ nconvs' = nconvs + 1

CalcStart ==
    /\ calcPc = "running"
    /\ calcResult' = StartResult(output)
    /\ calcPc' = "idle"
    /\ UNCHANGED <<units, output, runs, ndefs, nconvs, nconv, lastConv, defs, lim>>

\* ------------------------------------------------------------------------
\* GLI: values
\* ------------------------------------------------------------------------

\* A Python value: a float, a str or None.
Num(n) == [t |-> "num", n |-> n, s |-> ""]
Str(s) == [t |-> "str", n |-> 0, s |-> s]
NoneV == [t |-> "none", n |-> 0, s |-> ""]
IsNum(v) == v.t = "num"
IsStr(v) == v.t = "str"

\* a key absent from a dict over a fixed set of names
Absent == [t |-> "absent", n |-> 0, s |-> ""]
VarNames == {"x", "y"}
FuncNames == {"f", "g"}
NoVariables == [nm \in VarNames |-> Absent]
NoFunctions == [nm \in FuncNames |-> 0]

\* _GLICompiler.__init__
InitialContext == [color |-> Str("black"), size |-> Num(10)]
InitialTransform == [rotation |-> 0, scale_x |-> 1, scale_y |-> 1, tx |-> 0, ty |-> 0]

\* ------------------------------------------------------------------------
\* GLI: the statements of a source program
\* ------------------------------------------------------------------------
Sym(k, s, cmp, v, w, n, e, params, args) ==
    [k |-> k, s |-> s, cmp |-> cmp, v |-> v, w |-> w, n |-> n, e |-> e,
     params |-> params, args |-> args]

\* draw circle x=<v> y=<w>
DrawSym(v, w) == Sym("draw", "circle", "", v, w, 0, FALSE, <<>>, <<>>)
\* set <key> <v>
SetSym(key, v) == Sym("set", key, "", v, NoneV, 0, FALSE, <<>>, <<>>)
\* var <name> = <v>
VarSym(name, v) == Sym("var", name, "", v, NoneV, 0, FALSE, <<>>, <<>>)
\* call <name>(<args>)
CallSym(name, args) == Sym("call", name, "", NoneV, NoneV, 0, FALSE, <<>>, args)
\* rotate <v>, scale <v> [<w>], translate <v> <w>, push, pop
RotateSym(v) == Sym("rotate", "", "", v, NoneV, 0, FALSE, <<>>, <<>>)
ScaleSym(v, w) == Sym("scale", "", "", v, w, 0, FALSE, <<>>, <<>>)
TranslateSym(v, w) == Sym("translate", "", "", v, w, 0, FALSE, <<>>, <<>>)
PushSym == Sym("push", "", "", NoneV, NoneV, 0, FALSE, <<>>, <<>>)
PopSym == Sym("pop", "", "", NoneV, NoneV, 0, FALSE, <<>>, <<>>)
\* repeat <n> { ... }
RepeatSym(n) == Sym("repeat", "", "", NoneV, NoneV, n, FALSE, <<>>, <<>>)
\* if <name> <cmp> <v> { ... } [else { ... }]
IfSym(name, cmp, v, e) == Sym("if", name, cmp, v, NoneV, 0, e, <<>>, <<>>)
\* define <name>(<params>) { ... }
DefineSym(name, params) == Sym("define", name, "", NoneV, NoneV, 0, FALSE, params, <<>>)

BlockKinds == {"repeat", "if", "define"}
TransformKinds == {"rotate", "scale", "translate", "push", "pop"}

\* every statement kind once, nested up to two blocks deep
AllKindsSyms ==
    {DrawSym(Num(1), Num(0)), SetSym("color", Str("red")), VarSym("x", Num(1)),
     CallSym("f", <<Num(5)>>), RotateSym(Num(10)), ScaleSym(Num(2), Num(0)),
     TranslateSym(Num(1), Num(2)), PushSym, PopSym,
     RepeatSym(2), IfSym("x", "==", Num(1), TRUE), DefineSym("f", <<"x">>)}

\* draw statements and repeat blocks
RepeatSyms ==
    {DrawSym(Str("$i"), Num(0)), DrawSym(Num(7), Str("$i"))}
        \cup {RepeatSym(n) : n \in 0..MaxCount}

\* variables, function definitions and calls
FuncSyms ==
    {VarSym("x", Num(1)), VarSym("y", Num(2)), CallSym("f", <<Num(5)>>), CallSym("g", <<>>),
     DefineSym("f", <<"x">>), DefineSym("g", <<>>)}

\* statements that fail when they run, after statements that draw
FailSyms ==
    {DrawSym(Num(1), Num(0)), DrawSym(Str("x"), Num(0)), VarSym("x", Str("red")),
     IfSym("y", ">", Num(1), FALSE), RepeatSym(1)}

\* two definitions of one name, a call and the draws of the bodies
RedefineSyms ==
    {DefineSym("f", <<>>), DefineSym("f", <<"x">>), CallSym("f", <<>>),
     DrawSym(Num(1), Num(0)), DrawSym(Num(2), Num(0))}

\* a conditional with both branches, inside a loop that changes what it tests
CondSyms ==
    {RepeatSym(2), IfSym("x", "==", Num(1), TRUE), VarSym("x", Num(1)), VarSym("x", Num(2)),
     DrawSym(Num(1), Num(0))}

\* a definition inside a branch that is not taken or a loop of no pass, and a call
NestedDefineSyms ==
    {DefineSym("f", <<>>), CallSym("f", <<>>), IfSym("x", "==", Num(1), FALSE), RepeatSym(0),
     DrawSym(Num(1), Num(0))}

\* transforms at the top level and inside a block
TransformSyms ==
    {RotateSym(Num(10)), ScaleSym(Num(2), NoneV), ScaleSym(Num(2), Num(3)),
     TranslateSym(Num(1), Num(2)), PushSym, PopSym, DrawSym(Num(1), Num(1))}

Profiles ==
    {[syms |-> AllKindsSyms, nodes |-> MaxNodesAll, version |-> "v2"],
     [syms |-> RepeatSyms, nodes |-> MaxNodesRepeat, version |-> "v1"],
     [syms |-> RepeatSyms, nodes |-> MaxNodesRepeat, version |-> "v2"],
     [syms |-> FuncSyms, nodes |-> MaxNodesFunc, version |-> "v2"],
     [syms |-> FailSyms, nodes |-> MaxNodesFail, version |-> "v2"],
     [syms |-> RedefineSyms, nodes |-> MaxNodesRedefine, version |-> "v2"],
     [syms |-> CondSyms, nodes |-> MaxNodesCond, version |-> "v2"],
     [syms |-> NestedDefineSyms, nodes |-> MaxNodesNested, version |-> "v2"],
     [syms |-> TransformSyms, nodes |-> MaxNodesTransform, version |-> "v2"]}

\* ------------------------------------------------------------------------
\* GLI: _GLICompiler, the handlers the transformer calls bottom-up
\* ------------------------------------------------------------------------

\* a closure made by a handler; depth and owner record where it was compiled
MakeOp(sym, body, els, depth) ==
    [kind |-> sym.k, s |-> sym.s, cmp |-> sym.cmp, v |-> sym.v, w |-> sym.w, n |-> sym.n,
     params |-> sym.params, args |-> sym.args, body |-> body, els |-> els,
     depth |-> depth, owner |-> 0]

\* the transformer is inside a block: the values its statements returned so far
OpenFrame(sym) == [sym |-> sym, phase |-> "body", cur |-> <<>>, lists |-> <<>>, made |-> <<>>]
StartSym == Sym("start", "", "", NoneV, NoneV, 0, FALSE, <<>>, <<>>)

\* statement(stmt)
statement(stmt) == stmt

\* transform_stmt(*args): the body is `pass`, so the handler returns None (0)
transform_stmt(op) == 0

\* The grammar labels the node of a transform statement with the name of its own
\* handler (rotate, scale, translate, push, pop), as every statement node hands
\* one operation to its block; transform_stmt is then called for no node.
TransformNodesAliased == TRUE

\* what the node of a transform statement hands to statement()
TransformValue(op) == IF TransformNodesAliased THEN op ELSE transform_stmt(op)

\* block(*stmts)
blockList(stmts) == stmts

TopOpen == open[Len(open)]

\* the value a visited statement hands to the block the transformer is in
Collect(fr, val, id) == [fr EXCEPT !.cur = Append(@, val), !.made = Append(@, id)]

\* self.program.remove(op): the first element equal to op goes
RECURSIVE RemoveFirst(_, _)
RemoveFirst(prog, op) ==
    IF prog = <<>> THEN <<>>
    ELSE IF Head(prog) = op THEN Tail(prog)
    ELSE <<Head(prog)>> \o RemoveFirst(Tail(prog), op)

InSeq(x, sq) == \E k \in 1..Len(sq) : sq[k] = x

RemoveBlockOps_Skipped(prog, block_ops) == prog

\* for op in block_ops: if op in self.program: self.program.remove(op)
RECURSIVE RemoveBlockOps(_, _)
RemoveBlockOps(prog, block_ops) ==
    IF block_ops = <<>> THEN prog
    ELSE RemoveBlockOps(IF InSeq(Head(block_ops), prog)
                        THEN RemoveFirst(prog, Head(block_ops)) ELSE prog,
                        Tail(block_ops))

\* a statement that is no block: the handler makes a closure, appends it to
\* self.program and returns it; val is what reaches the enclosing block
LeafVisited(sym, val) ==
    LET id == Len(ops) + 1 IN
    /\ ops' = Append(ops, MakeOp(sym, <<>>, <<>>, Len(open) - 1))
    /\ program' = Append(program, id)
    /\ open' = [open EXCEPT ![Len(open)] = Collect(@, val, id)]
    /\ avail' = avail \ {sym}
    /\ left' = left - 1
    /\ UNCHANGED <<gliPc, version, functions, runVars, gliResult>>

LeafReady(sym, kind) ==
    /\ gliPc = "compile"
    /\ sym.k = kind
    /\ left > 0
    /\ TopOpen.phase # "closed"

set_stmt == \E sym \in avail : LeafReady(sym, "set") /\ LeafVisited(sym, statement(Len(ops) + 1))
draw_stmt == \E sym \in avail : LeafReady(sym, "draw") /\ LeafVisited(sym, statement(Len(ops) + 1))
var_stmt == \E sym \in avail : LeafReady(sym, "var") /\ LeafVisited(sym, statement(Len(ops) + 1))
call_stmt == \E sym \in avail : LeafReady(sym, "call") /\ LeafVisited(sym, statement(Len(ops) + 1))
rotate ==
    \E sym \in avail : LeafReady(sym, "rotate")
        /\ LeafVisited(sym, statement(TransformValue(Len(ops) + 1)))
scale ==
    \E sym \in avail : LeafReady(sym, "scale")
        /\ LeafVisited(sym, statement(TransformValue(Len(ops) + 1)))
translate ==
    \E sym \in avail : LeafReady(sym, "translate")
        /\ LeafVisited(sym, statement(TransformValue(Len(ops) + 1)))
push ==
    \E sym \in avail : LeafReady(sym, "push")
        /\ LeafVisited(sym, statement(TransformValue(Len(ops) + 1)))
pop ==
    \E sym \in avail : LeafReady(sym, "pop")
        /\ LeafVisited(sym, statement(TransformValue(Len(ops) + 1)))

\* the transformer goes down into a repeat, if or define node
EnterBlock ==
    /\ gliPc = "compile"
    /\ left > 0
    /\ Len(open) <= MaxDepth
    /\ TopOpen.phase # "closed"
    /\ \E sym \in avail :
         /\ sym.k \in BlockKinds
         /\ open' = Append(open, OpenFrame(sym))
         /\ avail' = avail \ {sym}
    /\ left' = left - 1
    /\ UNCHANGED <<gliPc, version, ops, program, functions, runVars, gliResult>>

\* block(*stmts): the statements of a { ... } are all visited
block ==
    /\ gliPc = "compile"
    /\ Len(open) > 1
    /\ TopOpen.phase # "closed"
    /\ open' = [open EXCEPT ![Len(open)] =
                   [@ EXCEPT !.lists = Append(@, blockList(TopOpen.cur)),
                             !.cur = <<>>,
                             !.phase = IF TopOpen.sym.e /\ TopOpen.phase = "body"
                                       THEN "else" ELSE "closed"]]
    /\ UNCHANGED <<gliPc, version, ops, program, functions, avail, left, runVars, gliResult>>

\* a block handler has made its wrapper: the closures compiled in the block
\* get it as owner, and the wrapper goes to the enclosing block
BlockVisited(fr, wrapper, prog) ==
    LET id == Len(ops) + 1
        owned == [k \in 1..Len(ops) |->
                     IF InSeq(k, fr.made) THEN [ops[k] EXCEPT !.owner = id] ELSE ops[k]]
    IN  /\ ops' = Append(owned, wrapper)
        /\ program' = Append(prog, id)
        /\ open' = [k \in 1..(Len(open) - 1) |->
                       IF k = Len(open) - 1 THEN Collect(open[k], statement(id), id)
                       ELSE open[k]]

BlockReady(kind) ==
    /\ gliPc = "compile"
    /\ Len(open) > 1
    /\ TopOpen.sym.k = kind
    /\ TopOpen.phase = "closed"

repeat_block ==
    /\ BlockReady("repeat")
    /\ LET block_ops == TopOpen.lists[1]
       IN  BlockVisited(TopOpen, MakeOp(TopOpen.sym, block_ops, <<>>, Len(open) - 2),
                        RemoveBlockOps(program, block_ops))
    /\ UNCHANGED <<gliPc, version, functions, avail, left, runVars, gliResult>>

if_block ==
    /\ BlockReady("if")
    /\ LET blk == TopOpen.lists[1]
           else_block == IF TopOpen.sym.e THEN TopOpen.lists[2] ELSE <<>>
       IN  BlockVisited(TopOpen, MakeOp(TopOpen.sym, blk, else_block, Len(open) - 2),
                        RemoveBlockOps(RemoveBlockOps(program, blk), else_block))
    /\ UNCHANGED <<gliPc, version, functions, avail, left, runVars, gliResult>>

Register_Never(fns, func_name, func) == fns

\* self.functions[func_name] = func
Register(fns, func_name, func) == [fns EXCEPT ![func_name] = func]

\* func_def: the function is registered while the tree is transformed
func_def ==
    /\ BlockReady("define")
    /\ LET blk == TopOpen.lists[1]
       IN  BlockVisited(TopOpen, MakeOp(TopOpen.sym, blk, <<>>, Len(open) - 2),
                        RemoveBlockOps(program, blk))
    /\ functions' = Register(functions, TopOpen.sym.s, Len(ops) + 1)
    /\ UNCHANGED <<gliPc, version, avail, left, runVars, gliResult>>

\* ------------------------------------------------------------------------
\* GLI: the closures, run by start
\* ------------------------------------------------------------------------

\* a running start, _repeat, branch of an if _op, or func: the list it walks
\* and its position in it
RunFrame(kind, oplist, idx, count, saved) ==
    [kind |-> kind, ops |-> oplist, pc |-> 1, idx |-> idx, count |-> count, saved |-> saved,
     pre |-> variables, since |-> Len(executed) + 1]

NoReturn ==
    [called |-> FALSE, before |-> NoVariables, atEnd |-> NoVariables, after |-> NoVariables,
     depth |-> 0, body |-> <<>>, entry |-> 0, ran |-> <<>>]

Top == frames[Len(frames)]
HasCur == gliPc = "run" /\ frames # <<>> /\ Top.pc <= Len(Top.ops)
CurVal == Top.ops[Top.pc]
CurOp == ops[CurVal]
\* for op in ...: if callable(op): op(); every value of a list is a closure here
Running(kind) == HasCur /\ CurVal # 0 /\ CurOp.kind = kind
Advanced == [frames EXCEPT ![Len(frames)].pc = @ + 1]
Popped == SubSeq(frames, 1, Len(frames) - 1)

GliOk(sh) == [kind |-> "ok", shapes |-> sh, err |-> "none"]
\* LarkGLIParser.parse: an exception of a closure leaves parse; no shapes are returned
GliError(e) == [kind |-> "error", shapes |-> <<>>, err |-> e]
NoGliResult == [kind |-> "none", shapes |-> <<>>, err |-> "none"]

Raise(e) ==
    /\ gliPc' = "error"
    /\ gliResult' = GliError(e)
    /\ frames' = <<>>
    /\ UNCHANGED <<version, ops, program, functions, avail, left, open, lastReturn,
                   shapes, context, variables, i, current_transform, transform_stack>>

\* _looks_math(s), for the strings of the model: only "i" is an expression
LooksMath(s) == s = "i"

\* LarkMathParser.parse_expression(s, ctx) for the expression "i": the i of ctx
parse_expression(s, ctx_i) == Num(ctx_i)

\* _eval_value(raw)
EvalValue(raw) ==
    LET s == IF raw = "$i" THEN "i" ELSE raw
    IN  IF version = "v2" /\ s \in VarNames /\ variables[s] # Absent
        THEN variables[s]
        ELSE IF LooksMath(s) THEN parse_expression(s, i)
        ELSE Str(s)

\* val = value; if isinstance(val, str): val = self._eval_value(val)
EvalIfStr(v) == IF IsStr(v) THEN EvalValue(v.s) ELSE v

\* _coerce(v) of draw_stmt; a str that float() rejects raises
Coerce(v) == IF IsNum(v) THEN v ELSE EvalValue(v.s)

\* bool(v)
Truthy(v) == (IsNum(v) /\ v.n # 0) \/ (IsStr(v) /\ v.s # "")

\* str(v): a str is itself, a float is its repr
StrOf(v) == IF IsStr(v) THEN v ELSE [t |-> "str", n |-> v.n, s |-> "<float>"]

Stepped ==
    /\ frames' = Advanced
    /\ UNCHANGED <<gliPc, version, ops, program, functions, avail, left, open, lastReturn, gliResult>>

\* the call op() of the closure under the cursor, with the transform around it
Logged ==
    executed' = Append(executed,
                       [op |-> CurVal, level |-> Len(frames), frame |-> Top.kind,
                        ok |-> gliPc' = "run",
                        target |-> IF CurOp.kind = "call" THEN functions[CurOp.s] ELSE 0,
                        tr |-> current_transform, stack |-> transform_stack,
                        trAfter |-> current_transform', stackAfter |-> transform_stack',
                        shapesAfter |-> shapes',
                        vars |-> variables, varsAfter |-> variables',
                        ctx |-> context, ctxAfter |-> context',
                        i |-> i, pass |-> Top.idx, body |-> Top.ops])

\* the closures a frame called itself, from the entry numbered since on
RanSince(log, since, level) ==
    LET idx == {k \in since..Len(log) : log[k].level = level}
        RECURSIVE Pick(_)
        Pick(k) == IF k > Len(log) THEN <<>>
                   ELSE IF k \in idx THEN <<log[k].op>> \o Pick(k + 1) ELSE Pick(k + 1)
    IN  Pick(since)

ShapeOf_CompileTime(x, y) ==
    [len |-> 7, shape |-> CurOp.s, x |-> x, y |-> y,
     size |-> context.size.n, color |-> StrOf(context.color),
     rot |-> InitialTransform.rotation,
     transform |-> <<InitialTransform.rotation, InitialTransform.scale_x,
                     InitialTransform.scale_y, InitialTransform.tx, InitialTransform.ty>>]

\* draw_stmt._op
ShapeOf(x, y) ==
    IF version = "v2"
    THEN [len |-> 7, shape |-> CurOp.s,
          x |-> x * current_transform.scale_x + current_transform.tx,
          y |-> y * current_transform.scale_y + current_transform.ty,
          size |-> context.size.n, color |-> StrOf(context.color),
          rot |-> current_transform.rotation,
          transform |-> <<current_transform.rotation, current_transform.scale_x,
                          current_transform.scale_y, current_transform.tx,
                          current_transform.ty>>]
    ELSE [len |-> 5, shape |-> CurOp.s, x |-> x, y |-> y,
          size |-> context.size.n, color |-> StrOf(context.color),
          rot |-> 0, transform |-> <<>>]

draw_op ==
    /\ Running("draw")
    /\ LET xf == Coerce(CurOp.v)
           yf == Coerce(CurOp.w)
       IN  IF IsNum(xf) /\ IsNum(yf)
           THEN /\ shapes' = Append(shapes, ShapeOf(xf.n, yf.n))
                /\ Stepped
                /\ UNCHANGED <<context, variables, i, current_transform, transform_stack>>
           ELSE Raise("ValueError")
    /\ Logged

\* set_stmt._op
SetContext(ctx, key, val) ==
    IF key = "size"
    THEN IF IsNum(val) THEN [ctx EXCEPT !.size = val] ELSE ctx
    ELSE [ctx EXCEPT ![key] = val]

set_op ==
    /\ Running("set")
    /\ context' = SetContext(context, CurOp.s, EvalIfStr(CurOp.v))
    /\ Stepped
    /\ UNCHANGED <<shapes, variables, i, current_transform, transform_stack>>
    /\ Logged

\* var_stmt._op
var_op ==
    /\ Running("var")
    /\ variables' = [variables EXCEPT ![CurOp.s] = EvalIfStr(CurOp.v)]
    /\ Stepped
    /\ UNCHANGED <<shapes, context, i, current_transform, transform_stack>>
    /\ Logged

IndexOfPass_OneBased(p) == p + 1

\* for i in range(count): self.i = i, on the pass numbered p from 0
IndexOfPass(p) == p

\* repeat_block._repeat is entered: range(count) gives the first index, if any
repeat_op ==
    /\ Running("repeat")
    /\ Len(frames) < MaxFrames
    /\ IF CurOp.n > 0
       THEN /\ i' = IndexOfPass(0)
            /\ frames' = Append(Advanced, RunFrame("repeat", CurOp.body, 0, CurOp.n, variables))
       ELSE /\ frames' = Advanced
            /\ UNCHANGED i
    /\ UNCHANGED <<gliPc, version, ops, program, functions, avail, left, open, lastReturn, gliResult,
                   shapes, context, variables, current_transform, transform_stack>>
    /\ Logged

\* _repeat: a pass over block_ops is over
repeat_next ==
    /\ gliPc = "run" /\ frames # <<>>
    /\ Top.kind = "repeat"
    /\ Top.pc > Len(Top.ops)
    /\ IF Top.idx + 1 < Top.count
       THEN /\ i' = IndexOfPass(Top.idx + 1)
            /\ frames' = [frames EXCEPT ![Len(frames)] =
                             [@ EXCEPT !.pc = 1, !.idx = Top.idx + 1]]
       ELSE /\ frames' = Popped
            /\ UNCHANGED i
    /\ UNCHANGED <<gliPc, version, ops, program, functions, avail, left, open, lastReturn, executed, gliResult,
                   shapes, context, variables, current_transform, transform_stack>>

\* left = self.variables.get(name, self.context.get(name))
LeftOf(name) ==
    IF name \in VarNames /\ variables[name] # Absent THEN variables[name]
    ELSE IF name \in DOMAIN context THEN context[name]
    ELSE NoneV

\* == and != never raise; an ordering of a float with None or a str raises TypeError
Comparable(cmp, l, r) == cmp \in {"is", "==", "!="} \/ (IsNum(l) /\ IsNum(r))

Matches_Always(cmp, l, r) == TRUE

\* match, as if_block._op computes it from op, left and right
Matches(cmp, l, r) ==
    CASE cmp \in {"is", "=="} -> l = r
      [] cmp = "!=" -> l # r
      [] cmp = ">" -> l.n > r.n
      [] cmp = "<" -> l.n < r.n
      [] cmp = ">=" -> l.n >= r.n
      [] cmp = "<=" -> l.n <= r.n
      [] OTHER -> FALSE

\* if_block._op
if_op ==
    /\ Running("if")
    /\ Len(frames) < MaxFrames
    /\ LET l == LeftOf(CurOp.s)
           r == EvalIfStr(CurOp.v)
       IN  IF ~Comparable(CurOp.cmp, l, r) THEN Raise("TypeError")
           ELSE /\ frames' =
                      IF Matches(CurOp.cmp, l, r)
                      THEN Append(Advanced, RunFrame("branch", CurOp.body, 0, 0, variables))
                      ELSE IF CurOp.els # <<>>
                      THEN Append(Advanced, RunFrame("branch", CurOp.els, 0, 0, variables))
                      ELSE Advanced
                /\ UNCHANGED <<gliPc, version, ops, program, functions, avail, left, open,
                               lastReturn, gliResult, shapes, context, variables, i, current_transform,
                               transform_stack>>
    /\ Logged

\* if_block._op: the branch taken is over
branch_end ==
    /\ gliPc = "run" /\ frames # <<>>
    /\ Top.kind = "branch"
    /\ Top.pc > Len(Top.ops)
    /\ frames' = Popped
    /\ UNCHANGED <<gliPc, version, ops, program, functions, avail, left, open, lastReturn, executed, gliResult,
                   shapes, context, variables, i, current_transform, transform_stack>>

\* for param_name, arg in zip(param_names, args): self.variables[param_name] = arg
RECURSIVE Bind(_, _, _)
Bind(vs, params, args) ==
    IF params = <<>> \/ args = <<>> THEN vs
    ELSE Bind([vs EXCEPT ![Head(params)] = Head(args)], Tail(params), Tail(args))

SavedVars_AfterBind(vs, params, args) == Bind(vs, params, args)

\* saved_vars = self.variables.copy(), taken before the parameters are bound
SavedVars(vs, params, args) == vs

BodyOps_Twice(fn) == fn.body \o fn.body

\* func: for op in body_ops
BodyOps(fn) == fn.body

\* call_stmt._op and the entry of func
call_op ==
    /\ Running("call")
    /\ Len(frames) < MaxFrames
    /\ IF functions[CurOp.s] # 0
       THEN LET fn == ops[functions[CurOp.s]]
                evaled_args == [k \in 1..Len(CurOp.args) |-> EvalIfStr(CurOp.args[k])]
            IN  /\ variables' = Bind(variables, fn.params, evaled_args)
                /\ frames' = Append(Advanced,
                                    RunFrame("call", BodyOps(fn), 0, 0,
                                             SavedVars(variables, fn.params, evaled_args)))
       ELSE /\ frames' = Advanced
            /\ UNCHANGED variables
    /\ UNCHANGED <<gliPc, version, ops, program, functions, avail, left, open, lastReturn, gliResult,
                   shapes, context, i, current_transform, transform_stack>>
    /\ Logged

\* func: the body is over, self.variables = saved_vars
func_return ==
    /\ gliPc = "run" /\ frames # <<>>
    /\ Top.kind = "call"
    /\ Top.pc > Len(Top.ops)
    /\ variables' = Top.saved
    /\ frames' = Popped
    /\ lastReturn' = [called |-> TRUE, before |-> Top.pre, atEnd |-> variables,
                      after |-> variables', depth |-> Len(frames), body |-> Top.ops,
                      entry |-> Top.since,
                      ran |-> RanSince(executed, Top.since, Len(frames))]
    /\ UNCHANGED <<executed, gliPc, version, ops, program, functions, avail, left, open, gliResult,
                   shapes, context, i, current_transform, transform_stack>>

\* func_def._op: pass
define_op ==
    /\ Running("define")
    /\ Stepped
    /\ UNCHANGED <<shapes, context, variables, i, current_transform, transform_stack>>
    /\ Logged

\* rotate._op
rotate_op ==
    /\ Running("rotate")
    /\ LET val == EvalIfStr(CurOp.v)
       IN  IF IsNum(val)
           THEN /\ current_transform' = [current_transform EXCEPT !.rotation = @ + val.n]
                /\ Stepped
                /\ UNCHANGED <<shapes, context, variables, i, transform_stack>>
           ELSE Raise("ValueError")
    /\ Logged

\* scale._op: sy is used only when it is truthy
ScaleY(sy, scale_x) ==
    IF Truthy(sy) /\ ~IsStr(sy) THEN sy
    ELSE IF Truthy(sy) THEN EvalValue(sy.s) ELSE scale_x

scale_op ==
    /\ Running("scale")
    /\ LET scale_x == EvalIfStr(CurOp.v)
           scale_y == ScaleY(CurOp.w, scale_x)
       IN  IF IsNum(scale_x) /\ IsNum(scale_y)
           THEN /\ current_transform' = [current_transform EXCEPT
                                            !.scale_x = @ * scale_x.n,
                                            !.scale_y = @ * scale_y.n]
                /\ Stepped
                /\ UNCHANGED <<shapes, context, variables, i, transform_stack>>
           ELSE Raise("ValueError")
    /\ Logged

\* translate._op
translate_op ==
    /\ Running("translate")
    /\ LET t_x == EvalIfStr(CurOp.v)
           t_y == EvalIfStr(CurOp.w)
       IN  IF IsNum(t_x) /\ IsNum(t_y)
           THEN /\ current_transform' = [current_transform EXCEPT
                                            !.tx = @ + t_x.n, !.ty = @ + t_y.n]
                /\ Stepped
                /\ UNCHANGED <<shapes, context, variables, i, transform_stack>>
           ELSE Raise("ValueError")
    /\ Logged

PushCopy_Initial(stack, tr) == Append(stack, InitialTransform)

\* self.transform_stack.append(copy.deepcopy(self.current_transform))
PushCopy(stack, tr) == Append(stack, tr)

\* push._op
push_op ==
    /\ Running("push")
    /\ transform_stack' = PushCopy(transform_stack, current_transform)
    /\ Stepped
    /\ UNCHANGED <<shapes, context, variables, i, current_transform>>
    /\ Logged

\* pop._op
pop_op ==
    /\ Running("pop")
    /\ IF transform_stack # <<>>
       THEN /\ current_transform' = transform_stack[Len(transform_stack)]
            /\ transform_stack' = SubSeq(transform_stack, 1, Len(transform_stack) - 1)
       ELSE UNCHANGED <<current_transform, transform_stack>>
    /\ Stepped
    /\ UNCHANGED <<shapes, context, variables, i>>
    /\ Logged

RunOrder_Reversed(prog) == [k \in 1..Len(prog) |-> prog[Len(prog) + 1 - k]]

\* for op in self.program
RunOrder(prog) == prog

\* start(*stmts): every statement is visited, the program list is run
start ==
    /\ gliPc = "compile"
    /\ Len(open) = 1
    /\ gliPc' = "run"
    /\ frames' = <<RunFrame("start", RunOrder(program), 0, 0, variables)>>
    /\ UNCHANGED <<version, ops, program, functions, avail, left, open, lastReturn, executed, gliResult,
                   shapes, context, variables, i, current_transform, transform_stack>>

\* start: return self.shapes
start_return ==
    /\ gliPc = "run" /\ frames # <<>>
    /\ Top.kind = "start"
    /\ Top.pc > Len(Top.ops)
    /\ gliPc' = "done"
    /\ gliResult' = GliOk(shapes)
    /\ frames' = <<>>
    /\ UNCHANGED <<version, ops, program, functions, avail, left, open, lastReturn, executed,
                   shapes, context, variables, i, current_transform, transform_stack>>

\* LarkGLIParser.parse: a tree and a new _GLICompiler for it
InitGli ==
    /\ gliPc = "compile"
    /\ \E p \in Profiles :
         /\ version = p.version
         /\ avail = p.syms
         /\ left = p.nodes
    /\ open = <<OpenFrame(StartSym)>>
    /\ ops = <<>>
    /\ program = <<>>
    /\ functions = NoFunctions
    /\ shapes = <<>>
    /\ context = InitialContext
    /\ variables = NoVariables
    /\ i = 0
    /\ current_transform = InitialTransform
    /\ transform_stack = <<>>
    /\ frames = <<>>
    /\ lastReturn = NoReturn
    /\ executed = <<>>
    /\ gliResult = NoGliResult

GliOff ==
    /\ gliPc = "off"
    /\ version = "v1"
    /\ avail = {}
    /\ left = 0
    /\ open = <<>>
    /\ ops = <<>>
    /\ program = <<>>
    /\ functions = NoFunctions
    /\ shapes = <<>>
    /\ context = InitialContext
    /\ variables = NoVariables
    /\ i = 0
    /\ current_transform = InitialTransform
    /\ transform_stack = <<>>
    /\ frames = <<>>
    /\ lastReturn = NoReturn
    /\ executed = <<>>
    /\ gliResult = NoGliResult

NextGli ==
    \/ set_stmt /\ UNCHANGED <<calcVars, mathVars, lexiVars, memVars, envVars>>
    \/ draw_stmt /\ UNCHANGED <<calcVars, mathVars, lexiVars, memVars, envVars>>
    \/ var_stmt /\ UNCHANGED <<calcVars, mathVars, lexiVars, memVars, envVars>>
    \/ call_stmt /\ UNCHANGED <<calcVars, mathVars, lexiVars, memVars, envVars>>
    \/ rotate /\ UNCHANGED <<calcVars, mathVars, lexiVars, memVars, envVars>>
    \/ scale /\ UNCHANGED <<calcVars, mathVars, lexiVars, memVars, envVars>>
    \/ translate /\ UNCHANGED <<calcVars, mathVars, lexiVars, memVars, envVars>>
    \/ push /\ UNCHANGED <<calcVars, mathVars, lexiVars, memVars, envVars>>
    \/ pop /\ UNCHANGED <<calcVars, mathVars, lexiVars, memVars, envVars>>
    \/ EnterBlock /\ UNCHANGED <<calcVars, mathVars, lexiVars, memVars, envVars>>
    \/ block /\ UNCHANGED <<calcVars, mathVars, lexiVars, memVars, envVars>>
    \/ repeat_block /\ UNCHANGED <<calcVars, mathVars, lexiVars, memVars, envVars>>
    \/ if_block /\ UNCHANGED <<calcVars, mathVars, lexiVars, memVars, envVars>>
    \/ func_def /\ UNCHANGED <<calcVars, mathVars, lexiVars, memVars, envVars>>
    \/ start /\ UNCHANGED <<calcVars, mathVars, lexiVars, memVars, envVars>>
    \/ draw_op /\ UNCHANGED <<calcVars, mathVars, lexiVars, memVars, envVars>>
    \/ set_op /\ UNCHANGED <<calcVars, mathVars, lexiVars, memVars, envVars>>
    \/ var_op /\ UNCHANGED <<calcVars, mathVars, lexiVars, memVars, envVars>>
    \/ repeat_op /\ UNCHANGED <<calcVars, mathVars, lexiVars, memVars, envVars>>
    \/ repeat_next /\ UNCHANGED <<calcVars, mathVars, lexiVars, memVars, envVars>>
    \/ if_op /\ UNCHANGED <<calcVars, mathVars, lexiVars, memVars, envVars>>
    \/ branch_end /\ UNCHANGED <<calcVars, mathVars, lexiVars, memVars, envVars>>
    \/ call_op /\ UNCHANGED <<calcVars, mathVars, lexiVars, memVars, envVars>>
    \/ func_return /\ UNCHANGED <<calcVars, mathVars, lexiVars, memVars, envVars>>
    \/ define_op /\ UNCHANGED <<calcVars, mathVars, lexiVars, memVars, envVars>>
    \/ rotate_op /\ UNCHANGED <<calcVars, mathVars, lexiVars, memVars, envVars>>
    \/ scale_op /\ UNCHANGED <<calcVars, mathVars, lexiVars, memVars, envVars>>
    \/ translate_op /\ UNCHANGED <<calcVars, mathVars, lexiVars, memVars, envVars>>
    \/ push_op /\ UNCHANGED <<calcVars, mathVars, lexiVars, memVars, envVars>>
    \/ pop_op /\ UNCHANGED <<calcVars, mathVars, lexiVars, memVars, envVars>>
    \/ start_return /\ UNCHANGED <<calcVars, mathVars, lexiVars, memVars, envVars>>

\* LarkTinyCalcParser.__init__: one TinyCalcTransformer, empty
CalcConstructed ==
    /\ calcPc = "idle"
    /\ units = <<>>
    /\ output = <<>>
    /\ calcResult = NoResult
    /\ runs = 0
    /\ ndefs = 0
    /\ nconvs = 0
    /\ nconv = 0
    /\ lastConv = NoConv
    /\ defs = <<>>

\* programs of any statements, run one after the other on one parser
InitCalc ==
    /\ CalcConstructed
    /\ lim = [defs |-> MaxStmts, convs |-> MaxStmts, stmts |-> MaxStmts, runs |-> MaxRuns,
              names |-> UnitNames, q1s |-> Quantities1, q2s |-> Quantities2,
              amounts |-> Amounts, ordered |-> FALSE]

\* one program of up to MaxDefines defines and MaxConverts converts
InitConvert ==
    /\ CalcConstructed
    /\ lim = [defs |-> MaxDefines, convs |-> MaxConverts,
              stmts |-> MaxDefines + MaxConverts, runs |-> 1,
              names |-> UnitNames, q1s |-> Quantities1, q2s |-> Quantities2,
              amounts |-> Amounts, ordered |-> FALSE]

\* one program of defines `1 A = k B` over four unit names, then conversions
InitPath ==
    /\ CalcConstructed
    /\ lim = [defs |-> MaxDefines, convs |-> MaxConverts + 1,
              stmts |-> MaxDefines + MaxConverts, runs |-> 1,
              names |-> PathUnitNames, q1s |-> {1}, q2s |-> 2..MaxQty,
              amounts |-> {1}, ordered |-> TRUE]

\* the graph and the declarations after `define 1 u1 = q2 u2` on top of st
Declared(st, u1, u2, q2) ==
    [units |-> DefineEdges(st.units, u1, u2, FDiv(FloatOf(q2), FloatOf(1)),
                           FDiv(FloatOf(1), FloatOf(q2))),
     defs |-> Append(st.defs, [u1 |-> u1, u2 |-> u2, q1 |-> 1, q2 |-> q2])]

\* a parser that has run a program of two defines from one unit to two others, in either
\* order, and now runs a program of up to two more defines and then conversions
InitRoute ==
    /\ calcPc = "idle"
    /\ output = <<>>
    /\ calcResult = StartResult(<<>>)
    /\ runs = 1
    /\ ndefs = 2
    /\ nconvs = 0
    /\ nconv = 0
    /\ lastConv = NoConv
    /\ \E first \in {UnitB, UnitC}, q \in 2..MaxQty, r \in 2..MaxQty :
          LET second == IF first = UnitB THEN UnitC ELSE UnitB
              st == Declared(Declared([units |-> <<>>, defs |-> <<>>], UnitA, first, q),
                             UnitA, second, r)
          IN  /\ units = st.units
              /\ defs = st.defs
    /\ lim = [defs |-> MaxDefines + 1, convs |-> MaxConverts + 1,
              stmts |-> MaxDefines + MaxConverts + 1, runs |-> 2,
              names |-> PathUnitNames, q1s |-> {1}, q2s |-> 2..MaxQty,
              amounts |-> {1}, ordered |-> TRUE]

\* ------------------------------------------------------------------------
\* TinyMath: TinyMathTransformer, a new one for every parse
\* ------------------------------------------------------------------------

MathNames == {"x", "y"}
MathNumbers == {0, MaxNumber}

\* an expression of a statement: a number, a variable, or a division of two of these
NumberExpr(n) == [op |-> "number", n |-> n, name |-> ""]
VarExpr(name) == [op |-> "var", n |-> 0, name |-> name]
Atoms == {NumberExpr(n) : n \in MathNumbers} \cup {VarExpr(name) : name \in MathNames}
DivExpr(l, r) == [op |-> "div", l |-> l, r |-> r]
Exprs == Atoms \cup {DivExpr(l, r) : l \in Atoms, r \in Atoms}

\* a float of TinyMath, or the exception a handler raised
MathVal(v) == [ok |-> TRUE, val |-> v, err |-> "none"]
MathRaise(e) == [ok |-> FALSE, val |-> <<0, 1>>, err |-> e]

Unassigned == <<0, 0>>
NoMathVariables == [name \in MathNames |-> Unassigned]

\* number(args)
number(n) == MathVal(FloatOf(n))

var_DefaultZero(vs, name) ==
    IF vs[name] = Unassigned THEN MathVal(FloatOf(0)) ELSE MathVal(vs[name])

\* var(args)
var(vs, name) ==
    IF vs[name] = Unassigned THEN MathRaise("Undefined variable") ELSE MathVal(vs[name])

\* div(args); an operand that raised was never handed to div
div(l, r) ==
    IF ~l.ok THEN l
    ELSE IF ~r.ok THEN r
    ELSE IF FIsZero(r.val) THEN MathRaise("Division by zero")
    ELSE MathVal(FDiv(l.val, r.val))

\* the transformer visits the atoms of an expression, then the expression
EvalAtom(vs, e) == IF e.op = "number" THEN number(e.n) ELSE var(vs, e.name)
EvalExpr(vs, e) ==
    IF e.op = "div" THEN div(EvalAtom(vs, e.l), EvalAtom(vs, e.r)) ELSE EvalAtom(vs, e)

\* f"{name} = {value}" and str(result): a line of the results
NamedLine(name, value) == [name |-> name, value |-> value]
ValueLine(value) == [name |-> "", value |-> value]

NoMathResult == [kind |-> "none", out |-> <<>>, err |-> "none"]

\* what a statement of the run was and found: its kind, name and expression, the
\* variables and the names assigned before it, the names assigned after it
NoMathLast ==
    [op |-> "none", name |-> "", e |-> NumberExpr(0), before |-> NoMathVariables,
     assigned |-> {}, now |-> {}, failed |-> FALSE, resultsBefore |-> <<>>]
MathStmt(op, name, e, ok) ==
    [op |-> op, name |-> name, e |-> e, before |-> mathVariables,
     assigned |-> mathLast.now,
     now |-> IF ok /\ op = "assignment" THEN mathLast.now \cup {name} ELSE mathLast.now,
     failed |-> ~ok, resultsBefore |-> results]
\* LarkTinyMathParser.parse: "\n".join(transformer.results)
MathOk(out) == [kind |-> "ok", out |-> out, err |-> "none"]
\* LarkTinyMathParser.parse: raise ValueError(f"TinyMath parse error: {e}")
MathError(e) == [kind |-> "error", out |-> <<>>, err |-> e]

\* LarkTinyMathParser.parse: transformer = TinyMathTransformer()
MathParse ==
    /\ mathPc = "idle"
    /\ mathRuns < MaxMathRuns
    /\ mathPc' = "running"
    /\ mathRuns' = mathRuns + 1
    /\ mathVariables' = NoMathVariables
    /\ results' = <<>>
    /\ mathLeft' = MaxMathStmts
    /\ mathLast' = NoMathLast
    /\ UNCHANGED mathResult

MathFails(e) ==
    /\ mathPc' = "idle"
    /\ mathResult' = MathError(e)
    /\ UNCHANGED <<mathVariables, results>>

\* assignment(args), then statement(args): the str that assignment put in the
\* results is not the value statement is given, which is the float
assignment ==
    /\ mathPc = "running"
    /\ mathLeft > 0
    /\ mathLeft' = mathLeft - 1
    /\ UNCHANGED mathRuns
    /\ \E name \in MathNames, e \in Exprs :
         LET value == EvalExpr(mathVariables, e)
         IN  /\ mathLast' = MathStmt("assignment", name, e, value.ok)
             /\ IF value.ok
                THEN /\ mathVariables' = [mathVariables EXCEPT ![name] = value.val]
                     /\ results' = results \o
                                       <<NamedLine(name, value.val), ValueLine(value.val)>>
                     /\ UNCHANGED <<mathPc, mathResult>>
                ELSE MathFails(value.err)

\* show_stmt(args), then statement(args)
show_stmt ==
    /\ mathPc = "running"
    /\ mathLeft > 0
    /\ mathLeft' = mathLeft - 1
    /\ UNCHANGED mathRuns
    /\ \E name \in MathNames :
         LET value == var(mathVariables, name)
         IN  /\ mathLast' = MathStmt("show_stmt", name, VarExpr(name), value.ok)
             /\ IF value.ok
                THEN /\ results' = results \o
                                       <<NamedLine(name, value.val), ValueLine(value.val)>>
                     /\ UNCHANGED <<mathVariables, mathPc, mathResult>>
                ELSE MathFails(value.err)

\* statement(args) of an expression
statement_expr ==
    /\ mathPc = "running"
    /\ mathLeft > 0
    /\ mathLeft' = mathLeft - 1
    /\ UNCHANGED mathRuns
    /\ \E e \in Exprs :
         LET result == EvalExpr(mathVariables, e)
         IN  /\ mathLast' = MathStmt("statement", "", e, result.ok)
             /\ IF result.ok
                THEN /\ results' = Append(results, ValueLine(result.val))
                     /\ UNCHANGED <<mathVariables, mathPc, mathResult>>
                ELSE MathFails(result.err)

\* LarkTinyMathParser.parse: the tree is transformed, the results are returned
MathReturn ==
    /\ mathPc = "running"
    /\ mathResult' = MathOk(results)
    /\ mathPc' = "idle"
    /\ UNCHANGED <<mathVariables, results, mathRuns, mathLeft, mathLast>>

MathConstructed ==
    /\ mathVariables = NoMathVariables
    /\ results = <<>>
    /\ mathResult = NoMathResult
    /\ mathRuns = 0
    /\ mathLeft = 0
    /\ mathLast = NoMathLast

InitMath == mathPc = "idle" /\ MathConstructed
MathOff == mathPc = "off" /\ MathConstructed

CalcOff ==
    /\ CalcConstructed
    /\ lim = [defs |-> 0, convs |-> 0, stmts |-> 0, runs |-> 0,
              names |-> {}, q1s |-> {}, q2s |-> {}, amounts |-> {}, ordered |-> FALSE]

\* ------------------------------------------------------------------------
\* Lexi: the handlers of LexiTransformer, called bottom-up and in source order
\* ------------------------------------------------------------------------

LexiTexts == {"a", "b"}
TaskNames == {"t", "u"}
LexiWords == {"happy", "sad"}
LexiNames == {"mood", "i"}
MemoryKeys == {"k"}

\* self.context without an entry task_<name>
NoTask == [defined |-> FALSE, block |-> <<>>]
NoTasks == [name \in TaskNames |-> NoTask]
NoValues == [name \in LexiNames |-> Absent]
NoMemory == [key \in MemoryKeys |-> Absent]

\* str(text).strip('"')
SayLine(text) == [kind |-> "text", name |-> text]

\* f"[Unknown task: {name}]"
UnknownTask(name) == [kind |-> "unknown_task", name |-> name]

\* f"[undefined:{name}]"
UndefinedKey(name) == [kind |-> "undefined", name |-> name]

\* a block being visited: what it is, and the state when the parser reached it
LexiFrame(kind, name, value, count) ==
    [kind |-> kind, name |-> name, value |-> value, count |-> count, block |-> <<>>,
     out |-> lexiOutput, values |-> lexiValues, memory |-> lexiMemory]

\* a handler that returns nothing has run for a statement: a body being visited gets
\* its return value
LexiVisited ==
    /\ lexiLeft' = lexiLeft - 1
    /\ lexiOpen' = IF lexiOpen = <<>> THEN <<>>
                   ELSE <<[lexiOpen[1] EXCEPT !.block = Append(@, "None")]>>

\* say_stmt(text)
lexi_say_stmt ==
    /\ lexiPc = "parse" /\ lexiLeft > 0
    /\ \E text \in LexiTexts : lexiOutput' = Append(lexiOutput, SayLine(text))
    /\ LexiVisited
    /\ UNCHANGED <<lexiPc, lexiVersion, lexiContext, lexiValues, lexiMemory, lexiBlocks,
                   lexiCalls, lexiResult>>

\* set_stmt(name, value): a word is no expression, parse_expression raises, the word is
\* stored as a str
lexi_set_stmt ==
    /\ lexiPc = "parse" /\ lexiLeft > 0
    /\ \E value \in LexiWords : lexiValues' = [lexiValues EXCEPT !["mood"] = Str(value)]
    /\ LexiVisited
    /\ UNCHANGED <<lexiPc, lexiVersion, lexiOutput, lexiContext, lexiMemory, lexiBlocks,
                   lexiCalls, lexiResult>>

\* remember_stmt(name, value): self.memory.set(name, str(value))
remember_stmt ==
    /\ lexiPc = "parse" /\ lexiLeft > 0
    /\ \E key \in MemoryKeys, value \in LexiWords :
          lexiMemory' = [lexiMemory EXCEPT ![key] = Str(value)]
    /\ LexiVisited
    /\ UNCHANGED <<lexiPc, lexiVersion, lexiOutput, lexiContext, lexiValues, lexiBlocks,
                   lexiCalls, lexiResult>>

\* recall_stmt(name): self.memory.get(str(name), f"[undefined:{name}]")
recall_stmt ==
    /\ lexiPc = "parse" /\ lexiLeft > 0
    /\ \E key \in MemoryKeys :
          lexiOutput' = Append(lexiOutput,
                               IF lexiMemory[key] = Absent THEN UndefinedKey(key)
                               ELSE SayLine(lexiMemory[key].s))
    /\ LexiVisited
    /\ UNCHANGED <<lexiPc, lexiVersion, lexiContext, lexiValues, lexiMemory, lexiBlocks,
                   lexiCalls, lexiResult>>

\* task = self.context.get(f"task_{name}"); if task: a tuple is true when it has elements
TaskFound(task) == task.defined /\ task.block # <<>>

\* call_stmt(name): the statements of the task were run when they were visited
lexi_call_stmt ==
    /\ lexiPc = "parse" /\ lexiLeft > 0
    /\ \E name \in TaskNames :
          /\ lexiOutput' = IF TaskFound(lexiContext[name]) THEN lexiOutput
                           ELSE Append(lexiOutput, UnknownTask(name))
          /\ lexiCalls' = Append(lexiCalls,
                                 [name |-> name, task |-> lexiContext[name],
                                  before |-> lexiOutput, after |-> lexiOutput'])
    /\ LexiVisited
    /\ UNCHANGED <<lexiPc, lexiVersion, lexiContext, lexiValues, lexiMemory, lexiBlocks,
                   lexiResult>>

\* the parser reaches the body of a block
LexiEnter(frame) ==
    /\ lexiPc = "parse" /\ lexiLeft > 1
    /\ lexiOpen = <<>>
    /\ lexiOpen' = <<frame>>
    /\ lexiLeft' = lexiLeft - 1
    /\ UNCHANGED <<lexiPc, lexiVersion, lexiOutput, lexiContext, lexiValues, lexiMemory,
                   lexiBlocks, lexiCalls, lexiResult>>

\* the parser reaches the body of a task definition
EnterTaskBody == \E name \in TaskNames : LexiEnter(LexiFrame("task", name, "", 0))

\* the parser reaches the body of repeat <count> { ... }
EnterRepeatBody == \E count \in 0..MaxLexiCount : LexiEnter(LexiFrame("repeat", "", "", count))

\* the parser reaches the body of if <name> is <value> { ... }
EnterIfBody == \E value \in LexiWords : LexiEnter(LexiFrame("if", "mood", value, 0))

\* block(*stmts): return stmts
lexi_block(stmts) == stmts

\* the statements of the block have been visited: its handler is called
LexiClosing(kind) ==
    /\ lexiPc = "parse"
    /\ lexiOpen # <<>>
    /\ lexiOpen[1].kind = kind
    /\ lexiOpen[1].block # <<>>
    /\ lexiOpen' = <<>>

\* task_def(name, block)
lexi_task_def ==
    /\ LexiClosing("task")
    /\ lexiContext' = [lexiContext EXCEPT ![lexiOpen[1].name] =
                          [defined |-> TRUE, block |-> lexi_block(lexiOpen[1].block)]]
    /\ UNCHANGED <<lexiPc, lexiVersion, lexiOutput, lexiValues, lexiMemory, lexiBlocks,
                   lexiLeft, lexiCalls, lexiResult>>

\* str(self.context.get(cond_name))
LexiStr(v) == IF v = Absent THEN "None" ELSE v.s

\* what a block handler found and left: the state when the parser reached the block,
\* when the handler was called and when it returned
LexiBlock(frame, holds) ==
    [kind |-> frame.kind, count |-> frame.count, name |-> frame.name, value |-> frame.value,
     holds |-> holds,
     heldAtOpen |-> frame.kind = "if" => LexiStr(frame.values[frame.name]) = frame.value,
     out0 |-> frame.out, out1 |-> lexiOutput, out2 |-> lexiOutput',
     values0 |-> frame.values, values1 |-> lexiValues, values2 |-> lexiValues',
     memory0 |-> frame.memory, memory1 |-> lexiMemory, memory2 |-> lexiMemory']

\* repeat_block(count, block): for i in range(count): self.context["i"] = i, and pass
\* for every statement of the block
lexi_repeat_block ==
    /\ LexiClosing("repeat")
    /\ lexiValues' = IF lexiOpen[1].count > 0
                     THEN [lexiValues EXCEPT !["i"] = Num(lexiOpen[1].count - 1)]
                     ELSE lexiValues
    /\ UNCHANGED <<lexiPc, lexiVersion, lexiOutput, lexiContext, lexiMemory, lexiLeft,
                   lexiCalls, lexiResult>>
    /\ lexiBlocks' = Append(lexiBlocks, LexiBlock(lexiOpen[1], TRUE))

\* if_block(cond_name, cond_value, block): pass for every statement of the block
lexi_if_block ==
    /\ LexiClosing("if")
    /\ UNCHANGED <<lexiPc, lexiVersion, lexiOutput, lexiContext, lexiValues, lexiMemory,
                   lexiLeft, lexiCalls, lexiResult>>
    /\ lexiBlocks' = Append(lexiBlocks,
                            LexiBlock(lexiOpen[1],
                                      LexiStr(lexiValues[lexiOpen[1].name]) = lexiOpen[1].value))

NoLexiResult == [kind |-> "none", joined |-> FALSE, lines |-> <<>>]

\* start(*stmts) and LarkLexiParser.parse: the lines, joined by the one or the other
lexi_start ==
    /\ lexiPc = "parse"
    /\ lexiOpen = <<>>
    /\ lexiPc' = "done"
    /\ lexiResult' = [kind |-> "ok", joined |-> TRUE, lines |-> lexiOutput]
    /\ UNCHANGED <<lexiVersion, lexiOutput, lexiContext, lexiValues, lexiMemory, lexiOpen,
                   lexiBlocks, lexiLeft, lexiCalls>>

LexiConstructed ==
    /\ lexiOutput = <<>>
    /\ lexiContext = NoTasks
    /\ lexiValues = NoValues
    /\ lexiMemory = NoMemory
    /\ lexiOpen = <<>>
    /\ lexiBlocks = <<>>
    /\ lexiCalls = <<>>
    /\ lexiResult = NoLexiResult

\* LexiTransformer.__init__ and the source handed to parse
InitLexi ==
    /\ lexiPc = "parse"
    /\ lexiVersion \in {"v1", "v2"}
    /\ lexiLeft = MaxLexiStmts
    /\ LexiConstructed

LexiOff ==
    /\ lexiPc = "off"
    /\ lexiVersion = "v1"
    /\ lexiLeft = 0
    /\ LexiConstructed

NextLexi ==
    \/ lexi_say_stmt /\ UNCHANGED <<calcVars, gliVars, mathVars, memVars, envVars>>
    \/ lexi_set_stmt /\ UNCHANGED <<calcVars, gliVars, mathVars, memVars, envVars>>
    \/ remember_stmt /\ UNCHANGED <<calcVars, gliVars, mathVars, memVars, envVars>>
    \/ recall_stmt /\ UNCHANGED <<calcVars, gliVars, mathVars, memVars, envVars>>
    \/ lexi_call_stmt /\ UNCHANGED <<calcVars, gliVars, mathVars, memVars, envVars>>
    \/ EnterTaskBody /\ UNCHANGED <<calcVars, gliVars, mathVars, memVars, envVars>>
    \/ EnterRepeatBody /\ UNCHANGED <<calcVars, gliVars, mathVars, memVars, envVars>>
    \/ EnterIfBody /\ UNCHANGED <<calcVars, gliVars, mathVars, memVars, envVars>>
    \/ lexi_task_def /\ UNCHANGED <<calcVars, gliVars, mathVars, memVars, envVars>>
    \/ lexi_repeat_block /\ UNCHANGED <<calcVars, gliVars, mathVars, memVars, envVars>>
    \/ lexi_if_block /\ UNCHANGED <<calcVars, gliVars, mathVars, memVars, envVars>>
    \/ lexi_start /\ UNCHANGED <<calcVars, gliVars, mathVars, memVars, envVars>>

\* ------------------------------------------------------------------------
\* JSONFileMemory (core/memory.py)
\* ------------------------------------------------------------------------

Instances == {1, 2}
MemKeys == {"k1", "k2"}
MemValues == {"v", "w"}

EmptyStore == [key \in MemKeys |-> Absent]

\* json.dump(self._store, f): the members of the object that is written
JsonDump(store) == {<<key, store[key].s>> : key \in {k \in MemKeys : store[k] # Absent}}

\* json.load(f): the dict of the members read
JsonLoad(text) ==
    [key \in MemKeys |->
        IF \E m \in text : m[1] = key
        THEN Str((CHOOSE m \in text : m[1] = key)[2])
        ELSE Absent]

MissingFile == [state |-> "missing", text |-> {}]
CorruptFile == [state |-> "corrupt", text |-> {}]
JsonFile(text) == [state |-> "json", text |-> text]

\* _load(): a file that is there and is JSON replaces self._store, one that is not JSON
\* empties it, and without a file self._store stays
Load(file, store) ==
    CASE file.state = "json" -> JsonLoad(file.text)
      [] file.state = "corrupt" -> EmptyStore
      [] OTHER -> store

\* _save()
Save(store) == JsonFile(JsonDump(store))

AutoSave_Never(auto_save, store, file) == file

\* if self.auto_save: self._save()
AutoSave(auto_save, store, file) == IF auto_save THEN Save(store) ELSE file

\* get(key, default=None) of a store
Get(store, key) == IF store[key] = Absent THEN NoneV ELSE store[key]

NotConstructed == [open |-> FALSE, auto_save |-> FALSE, store |-> EmptyStore]
NoMemLast ==
    [op |-> "none", inst |-> 0, key |-> "", auto_save |-> FALSE, saved |-> FALSE,
     file |-> MissingFile, store |-> EmptyStore, unseen |-> EmptyStore,
     prevOp |-> "none", prevAuto |-> FALSE, prevStore |-> EmptyStore]

\* the record of an operation of the instance inst, once it has returned
MemOp(op, inst, key, saved) ==
    [op |-> op, inst |-> inst, key |-> key, auto_save |-> memStores'[inst].auto_save,
     saved |-> saved, file |-> memFile', store |-> memStores'[inst].store,
     unseen |-> memUnseen[inst],
     prevOp |-> memLast.op, prevAuto |-> memLast.auto_save, prevStore |-> memLast.store]

CanCall == memOps < MaxMemOps

\* JSONFileMemory(filepath, auto_save): self._store = {}, self._load()
JSONFileMemory_init ==
    /\ CanCall
    /\ \E inst \in Instances, auto_save \in BOOLEAN :
          /\ memStores' = [memStores EXCEPT ![inst] =
                               [open |-> TRUE, auto_save |-> auto_save,
                                store |-> Load(memFile, EmptyStore)]]
          /\ memUnseen' = [memUnseen EXCEPT ![inst] = EmptyStore]
          /\ UNCHANGED <<memFile, memWriters>>
          /\ memOps' = memOps + 1
          /\ memLast' = MemOp("init", inst, "", FALSE)

\* load(): self._load(), return self.to_dict()
JSONFileMemory_load ==
    /\ CanCall
    /\ \E inst \in Instances :
          /\ memStores[inst].open
          /\ memStores' = [memStores EXCEPT ![inst].store = Load(memFile, @)]
          /\ memUnseen' = [memUnseen EXCEPT ![inst] =
                               IF memFile.state = "missing" THEN @ ELSE EmptyStore]
          /\ UNCHANGED <<memFile, memWriters>>
          /\ memOps' = memOps + 1
          /\ memLast' = MemOp("load", inst, "", FALSE)

\* what the instances other than inst have not seen of a file that inst has just saved
UnseenAfterSave(inst, key, value) ==
    [j \in Instances |->
        IF j = inst THEN [memUnseen[j] EXCEPT ![key] = Absent]
        ELSE [memUnseen[j] EXCEPT ![key] = value]]

\* set(key, value)
JSONFileMemory_set ==
    /\ CanCall
    /\ \E inst \in memWriters, key \in MemKeys, value \in MemValues :
          /\ memStores[inst].open
          /\ memStores' = [memStores EXCEPT ![inst].store[key] = Str(value)]
          /\ memFile' = AutoSave(memStores[inst].auto_save, memStores'[inst].store, memFile)
          /\ memUnseen' = IF memStores[inst].auto_save
                          THEN UnseenAfterSave(inst, key, Str(value))
                          ELSE memUnseen
          /\ UNCHANGED memWriters
          /\ memOps' = memOps + 1
          /\ memLast' = MemOp("set", inst, key, memStores[inst].auto_save)

\* delete(key): nothing is done, and nothing saved, for a key that is not in the store
JSONFileMemory_delete ==
    /\ CanCall
    /\ \E inst \in memWriters, key \in MemKeys :
          /\ memStores[inst].open
          /\ IF memStores[inst].store[key] # Absent
             THEN /\ memStores' = [memStores EXCEPT ![inst].store[key] = Absent]
                  /\ memFile' = AutoSave(memStores[inst].auto_save, memStores'[inst].store,
                                         memFile)
                  /\ memUnseen' = IF memStores[inst].auto_save
                                  THEN UnseenAfterSave(inst, key, Absent)
                                  ELSE memUnseen
                  /\ memLast' = MemOp("delete", inst, key, memStores[inst].auto_save)
             ELSE /\ UNCHANGED <<memStores, memFile, memUnseen>>
                  /\ memLast' = MemOp("delete", inst, key, FALSE)
          /\ UNCHANGED memWriters
          /\ memOps' = memOps + 1

\* clear()
JSONFileMemory_clear ==
    /\ CanCall
    /\ \E inst \in memWriters :
          /\ memStores[inst].open
          /\ memStores' = [memStores EXCEPT ![inst].store = EmptyStore]
          /\ memFile' = AutoSave(memStores[inst].auto_save, memStores'[inst].store, memFile)
          /\ memUnseen' = IF memStores[inst].auto_save
                          THEN [j \in Instances |-> EmptyStore]
                          ELSE memUnseen
          /\ UNCHANGED memWriters
          /\ memOps' = memOps + 1
          /\ memLast' = MemOp("clear", inst, "", memStores[inst].auto_save)

\* the files that earlier runs can have left
FilesAtStart ==
    {MissingFile, CorruptFile, JsonFile({}), JsonFile({<<"k1", "v">>}),
     JsonFile({<<"k1", "w">>, <<"k2", "v">>})}

MemConstructed ==
    /\ memStores = [inst \in Instances |-> NotConstructed]
    /\ memOps = 0
    /\ memUnseen = [inst \in Instances |-> EmptyStore]
    /\ memLast = NoMemLast

\* one instance writes; new instances are constructed on its file
InitMemory ==
    /\ memFile \in FilesAtStart
    /\ memWriters = {1}
    /\ MemConstructed

\* two instances are open on one file and both write
InitShared ==
    /\ memFile \in FilesAtStart
    /\ memWriters = Instances
    /\ MemConstructed

MemOff ==
    /\ memFile = MissingFile
    /\ memWriters = {}
    /\ MemConstructed

NextMemory ==
    \/ JSONFileMemory_init /\ UNCHANGED <<calcVars, gliVars, mathVars, lexiVars, envVars>>
    \/ JSONFileMemory_load /\ UNCHANGED <<calcVars, gliVars, mathVars, lexiVars, envVars>>
    \/ JSONFileMemory_set /\ UNCHANGED <<calcVars, gliVars, mathVars, lexiVars, envVars>>
    \/ JSONFileMemory_delete /\ UNCHANGED <<calcVars, gliVars, mathVars, lexiVars, envVars>>
    \/ JSONFileMemory_clear /\ UNCHANGED <<calcVars, gliVars, mathVars, lexiVars, envVars>>

\* ------------------------------------------------------------------------
\* DSLEnv (rl/envs/dsl_env.py)
\* ------------------------------------------------------------------------

\* the vocabulary: a token with a line break and one without
Vocabulary == <<"x", "\n">>

\* the values of max_steps the environments are made with
StepBudgets == {1, 2, MaxSteps}

\* `"\n" in token and len(self.program) > 10`
LongProgram == 10

Finished_NoBudget(step, budget, success, token, tokens) ==
    \/ success
    \/ token = "\n" /\ Len(tokens) > LongProgram

\* self.done of step: the step budget is used up, or the run gave the expected output,
\* or a line ends in a program of more than ten tokens
Finished(step, budget, success, token, tokens) ==
    \/ step >= budget
    \/ success
    \/ token = "\n" /\ Len(tokens) > LongProgram

NoEnvLast ==
    [op |-> "none", raised |-> FALSE, done |-> FALSE, program |-> <<>>, step |-> 0, runs |-> 0]

\* what a call of op found when it was made
EnvCall(op, raised) ==
    [op |-> op, raised |-> raised, done |-> done, program |-> envProgram,
     step |-> current_step, runs |-> coreRuns]

\* reset()
env_reset ==
    /\ episodes < MaxEpisodes
    /\ envProgram' = <<>>
    /\ current_step' = 0
    /\ done' = FALSE
    /\ coreRuns' = 0
    /\ episodes' = episodes + 1
    /\ envLast' = EnvCall("reset", FALSE)
    /\ UNCHANGED max_steps

\* step(action) of an episode that is done: RuntimeError
env_step_done ==
    /\ done
    /\ \E action \in DOMAIN Vocabulary :
          envLast' = EnvCall("step", TRUE)
    /\ UNCHANGED <<max_steps, envProgram, current_step, done, coreRuns, episodes>>

\* step(action): the token is appended, the program is run by _execute_program, which
\* catches what the run raises, and success tells whether the output is the expected one
env_step ==
    /\ ~done
    /\ \E action \in DOMAIN Vocabulary, success \in BOOLEAN :
          LET token == Vocabulary[action] IN
          /\ envProgram' = Append(envProgram, token)
          /\ current_step' = current_step + 1
          /\ coreRuns' = coreRuns + 1
          /\ done' = Finished(current_step', max_steps, success, token, envProgram')
    /\ envLast' = EnvCall("step", FALSE)
    /\ UNCHANGED <<max_steps, episodes>>

\* DSLEnv.__init__
InitEnv ==
    /\ max_steps \in StepBudgets
    /\ envProgram = <<>>
    /\ current_step = 0
    /\ done = FALSE
    /\ coreRuns = 0
    /\ episodes = 0
    /\ envLast = NoEnvLast

EnvOff ==
    /\ max_steps = 0
    /\ envProgram = <<>>
    /\ current_step = 0
    /\ done = FALSE
    /\ coreRuns = 0
    /\ episodes = 0
    /\ envLast = NoEnvLast

NextEnv ==
    \/ env_reset /\ UNCHANGED <<calcVars, gliVars, mathVars, lexiVars, memVars>>
    \/ env_step /\ UNCHANGED <<calcVars, gliVars, mathVars, lexiVars, memVars>>
    \/ env_step_done /\ UNCHANGED <<calcVars, gliVars, mathVars, lexiVars, memVars>>

NextCalc ==
    \/ CalcParse /\ UNCHANGED <<gliVars, mathVars, lexiVars, memVars, envVars>>
    \/ define_stmt /\ UNCHANGED <<gliVars, mathVars, lexiVars, memVars, envVars>>
    \/ convert_stmt /\ UNCHANGED <<gliVars, mathVars, lexiVars, memVars, envVars>>
    \/ CalcStart /\ UNCHANGED <<gliVars, mathVars, lexiVars, memVars, envVars>>

NextMath ==
    \/ MathParse /\ UNCHANGED <<calcVars, gliVars, lexiVars, memVars, envVars>>
    \/ assignment /\ UNCHANGED <<calcVars, gliVars, lexiVars, memVars, envVars>>
    \/ show_stmt /\ UNCHANGED <<calcVars, gliVars, lexiVars, memVars, envVars>>
    \/ statement_expr /\ UNCHANGED <<calcVars, gliVars, lexiVars, memVars, envVars>>
    \/ MathReturn /\ UNCHANGED <<calcVars, gliVars, lexiVars, memVars, envVars>>

\* one LarkTinyCalcParser and the programs it is given
InitCalcRuns == InitCalc /\ GliOff /\ MathOff /\ LexiOff /\ MemOff /\ EnvOff
SpecCalc == InitCalcRuns /\ [][NextCalc]_vars

\* one program of define statements, then conversions
InitConvertRun == InitConvert /\ GliOff /\ MathOff /\ LexiOff /\ MemOff /\ EnvOff
SpecConvert == InitConvertRun /\ [][NextCalc]_vars

\* one program of defines over four unit names, then conversions
InitPathRun == InitPath /\ GliOff /\ MathOff /\ LexiOff /\ MemOff /\ EnvOff
SpecPath == InitPathRun /\ [][NextCalc]_vars

\* one GLI program, compiled and run
InitGliRun == InitGli /\ CalcOff /\ MathOff /\ LexiOff /\ MemOff /\ EnvOff
SpecGli == InitGliRun /\ [][NextGli]_vars

\* a program of any of the three languages
InitAny ==
    \/ InitCalc /\ GliOff /\ MathOff /\ LexiOff /\ MemOff /\ EnvOff
    \/ InitGli /\ CalcOff /\ MathOff /\ LexiOff /\ MemOff /\ EnvOff
    \/ InitMath /\ CalcOff /\ GliOff /\ LexiOff /\ MemOff /\ EnvOff

SpecAny == InitAny /\ [][NextCalc \/ NextGli \/ NextMath]_vars

\* one LarkTinyMathParser and the programs it is given
InitMathRun == InitMath /\ CalcOff /\ GliOff /\ LexiOff /\ MemOff /\ EnvOff
SpecMath == InitMathRun /\ [][NextMath]_vars

\* one JSONFileMemory that writes, and the instances constructed on its file
InitMemoryRun == InitMemory /\ CalcOff /\ GliOff /\ MathOff /\ LexiOff /\ EnvOff
SpecMemory == InitMemoryRun /\ [][NextMemory]_vars

\* two JSONFileMemory instances that write to one file
InitSharedRun == InitShared /\ CalcOff /\ GliOff /\ MathOff /\ LexiOff /\ EnvOff
SpecShared == InitSharedRun /\ [][NextMemory]_vars

\* one DSLEnv, its episodes and the calls of step
InitEnvRun == InitEnv /\ CalcOff /\ GliOff /\ MathOff /\ LexiOff /\ MemOff
SpecEnv == InitEnvRun /\ [][NextEnv]_vars

\* conversions on graphs of four units and up to four declared edges
InitRouteRun == InitRoute /\ GliOff /\ MathOff /\ LexiOff /\ MemOff /\ EnvOff
SpecRoute == InitRouteRun /\ [][NextCalc]_vars

\* one Lexi program
InitLexiRun == InitLexi /\ CalcOff /\ GliOff /\ MathOff /\ MemOff /\ EnvOff
SpecLexi == InitLexiRun /\ [][NextLexi]_vars

\* ------------------------------------------------------------------------
\* GLI: the program list, repeat and functions
\* ------------------------------------------------------------------------

Compiled == gliPc \in {"run", "done", "error"}

\* the closures of the top-level statements, in source order
RECURSIVE TopLevelOps(_)
TopLevelOps(k) ==
    IF k = 0 THEN <<>>
    ELSE IF ops[k].depth = 0 THEN Append(TopLevelOps(k - 1), k) ELSE TopLevelOps(k - 1)

\* how often a value is in a list
RECURSIVE Count(_, _)
Count(x, sq) ==
    IF sq = <<>> THEN 0 ELSE (IF Head(sq) = x THEN 1 ELSE 0) + Count(x, Tail(sq))

\* the wrappers whose block lists hold the closure k
Holders(k) == {w \in 1..Len(ops) : InSeq(k, ops[w].body) \/ InSeq(k, ops[w].els)}

IsRepeatOfDraws ==
    /\ Len(program) = 1
    /\ ops[program[1]].kind = "repeat"
    /\ Len(ops[program[1]].body) = Len(ops) - 1
    /\ \A k \in 1..Len(ops) :
         k # program[1] => ops[k].kind = "draw" /\ InSeq(k, ops[program[1]].body)

\* the coordinate a draw reads on the pass numbered p
CoordOnPass(v, p) == IF v = Str("$i") THEN p ELSE v.n

\* C2: repeat N { k draws } appends N*k shapes, pass by pass, $i being 0, 1, ...,
\* N-1 in pass order, and start itself never runs a draw of the body.
C2_RepeatDrawsPerPass ==
    (Compiled /\ IsRepeatOfDraws) =>
        LET wrapper == ops[program[1]]
            k == Len(wrapper.body)
        IN  /\ (HasCur /\ Top.kind = "start") => CurVal = program[1]
            /\ gliPc = "done" =>
                 /\ Len(shapes) = wrapper.n * k
                 /\ gliResult = GliOk(shapes)
                 /\ \A p \in 0..(wrapper.n - 1), j \in 1..k :
                      LET sh == shapes[p * k + j]
                          d == ops[wrapper.body[j]]
                      IN  /\ sh.shape = d.s
                          /\ sh.x = CoordOnPass(d.v, p)
                          /\ sh.y = CoordOnPass(d.w, p)

C2_Witness ==
    /\ gliPc = "done"
    /\ IsRepeatOfDraws
    /\ ops[program[1]].n = MaxCount
    /\ Len(ops[program[1]].body) = 2
    /\ Len(shapes) = 2 * MaxCount

\* C3: when a call of a function returns, the variables are those of just before
\* the call: a variable named like a parameter has its value of before the call,
\* and what the body assigned is gone; also for a call made in a function body.
C3_CallRestoresVariables == lastReturn.called => lastReturn.after = lastReturn.before

\* a call made inside a function body returned, its body having changed the variables
C3_Witness ==
    /\ lastReturn.called
    /\ lastReturn.atEnd # lastReturn.before
    /\ lastReturn.depth >= 3

\* a caller's variable with the name of a parameter was given back its value
C3_WitnessShadowed ==
    /\ lastReturn.called
    /\ lastReturn.before["x"] = Num(1)
    /\ lastReturn.atEnd["x"] = Num(5)

\* ------------------------------------------------------------------------
\* A failing statement
\* ------------------------------------------------------------------------

\* C4: a statement of a TinyCalc, TinyMath or GLI program fails: the run is over,
\* and what the caller gets holds no line and no shape of the statements before.
C4_FailedRunHandsNothing ==
    /\ calcResult.kind = "error" => calcResult.out = <<>>
    /\ mathResult.kind = "error" => mathResult.out = <<>>
    /\ gliResult.kind = "error" => gliResult.shapes = <<>>
    /\ gliPc = "error" => (frames = <<>> /\ gliResult.kind = "error")

\* a conversion of this run gave its line, then a statement failed
C4_Witness ==
    /\ calcPc = "idle"
    /\ calcResult.kind = "error"
    /\ nconv > 0

C4_WitnessMath == mathPc = "idle" /\ mathResult.kind = "error" /\ results # <<>>

C4_WitnessGli == gliPc = "error" /\ shapes # <<>>

\* ------------------------------------------------------------------------
\* TinyCalc: the claims
\* ------------------------------------------------------------------------
Edge(g, x, y) == DictHas(g, x) /\ DictHas(DictGet(g, x), y)
Factor(g, x, y) == DictGet(DictGet(g, x), y)

\* C5: every parse call starts with an empty unit graph and an empty output
\* buffer, whatever the parse calls before it on the same parser did.
C5_FreshContextPerRun == [][CalcParse => (units' = <<>> /\ output' = <<>>)]_vars

\* C5, seen by the caller: a parse call returns exactly the lines its own
\* convert statements appended.
C5_ResultHoldsOwnLinesOnly ==
    (calcPc = "idle" /\ calcResult.kind = "ok") => Len(calcResult.out) = nconv

\* C6: convert(a, u, u) returns a, for names of the graph and names absent
\* from it, raises nothing and leaves the graph as it was.
C6_IdentityConversion ==
    (lastConv.called /\ lastConv.from = lastConv.to) =>
        /\ lastConv.r.ok
        /\ lastConv.r.val = lastConv.amount
        /\ lastConv.r.err = NoErr
        /\ lastConv.after = lastConv.before

C6_Witness ==
    /\ lastConv.called
    /\ lastConv.from = lastConv.to
    /\ ~DictHas(lastConv.before, lastConv.from)
    /\ lastConv.before # <<>>
    /\ lastConv.r.ok
    /\ output # <<>>

\* C7: the unit graph is symmetric, the two factors of a pair are reciprocal
\* and no unit has an empty neighbour set.
C7_GraphSymmetric ==
    /\ \A x \in DictKeys(units) : DictGet(units, x) # <<>>
    /\ \A x \in DictKeys(units) : \A y \in DictKeys(DictGet(units, x)) :
          /\ Edge(units, y, x)
          /\ FMul(Factor(units, x, y), Factor(units, y, x)) = <<1, 1>>

\* the graph is symmetric as long as no define names one unit twice
NoSelfDefine == \A k \in 1..Len(defs) : defs[k].u1 # defs[k].u2
C7_SymmetricWithoutSelfDefine == NoSelfDefine => C7_GraphSymmetric

DeclaredOnce(ds, k) ==
    /\ ds[k].u1 # ds[k].u2
    /\ \A j \in 1..Len(ds) : j # k => {ds[j].u1, ds[j].u2} # {ds[k].u1, ds[k].u2}

\* C8: for a declaration `define q1 A = q2 B` of a pair declared once,
\* convert(x, A, B) = x * q2 / q1 and convert(x, B, A) = x * q1 / q2, so
\* convert(1, A, B) = k and convert(k, B, A) = 1 for `1 A = k B`.
C8_Bidirectional ==
    lastConv.called =>
        \A k \in 1..Len(lastConv.defs) :
            LET d == lastConv.defs[k] IN
            DeclaredOnce(lastConv.defs, k) =>
                /\ (lastConv.from = d.u1 /\ lastConv.to = d.u2) =>
                       /\ lastConv.r.ok
                       /\ lastConv.r.val = FMul(lastConv.amount, Rat(d.q2, d.q1))
                /\ (lastConv.from = d.u2 /\ lastConv.to = d.u1) =>
                       /\ lastConv.r.ok
                       /\ lastConv.r.val = FMul(lastConv.amount, Rat(d.q1, d.q2))

\* convert(k, B, A) = 1 with a two-hop path from B to A of another product
C8_Witness ==
    /\ lastConv.called
    /\ \E k \in 1..Len(lastConv.defs) :
         LET d == lastConv.defs[k] IN
         /\ DeclaredOnce(lastConv.defs, k)
         /\ lastConv.from = d.u2 /\ lastConv.to = d.u1
         /\ lastConv.amount = <<d.q2, 1>> /\ d.q1 = 1
         /\ lastConv.r.val = <<1, 1>>
         /\ \E m \in UnitNames \ {d.u1, d.u2} :
              /\ Edge(lastConv.before, d.u2, m) /\ Edge(lastConv.before, m, d.u1)
              /\ FMul(Factor(lastConv.before, d.u2, m), Factor(lastConv.before, m, d.u1))
                     # Factor(lastConv.before, d.u2, d.u1)

\* the declarations form a forest: no pair twice, no unit with itself, no cycle
IsTree(ds) ==
    /\ \A k \in 1..Len(ds) : DeclaredOnce(ds, k)
    /\ \A k \in 1..Len(ds) :
          \* an edge of a forest is a bridge: its ends fall apart without it
          LET others == {{ds[j].u1, ds[j].u2} : j \in (1..Len(ds)) \ {k}}
              Reach[n \in 0..Cardinality(UnitNames)] ==
                  IF n = 0 THEN {ds[k].u1}
                  ELSE Reach[n - 1] \cup
                       {y \in UnitNames : \E x \in Reach[n - 1] : {x, y} \in others}
          IN  ds[k].u2 \notin Reach[Cardinality(UnitNames)]

\* the product of the declared factors along the simple path from x to y
RECURSIVE PathProduct(_, _, _, _)
PathProduct(ds, x, y, seen) ==
    IF x = y THEN <<1, 1>>
    ELSE LET steps == {k \in 1..Len(ds) :
                          \/ ds[k].u1 = x /\ ds[k].u2 \notin seen
                          \/ ds[k].u2 = x /\ ds[k].u1 \notin seen}
             next(k) == IF ds[k].u1 = x THEN ds[k].u2 ELSE ds[k].u1
             fac(k) == IF ds[k].u1 = x THEN Rat(ds[k].q2, ds[k].q1)
                       ELSE Rat(ds[k].q1, ds[k].q2)
             good == {k \in steps : PathProduct(ds, next(k), y, seen \cup {x}) # <<0, 1>>}
         IN  IF good = {} THEN <<0, 1>>
             ELSE LET k == CHOOSE k \in good : TRUE
                  IN  FMul(fac(k), PathProduct(ds, next(k), y, seen \cup {x}))

\* C9: on a tree, convert(a, X, Y) for connected X # Y is a times the product
\* of the factors along the path from X to Y.
C9_TreePathProduct ==
    (/\ lastConv.called
     /\ IsTree(lastConv.defs)
     /\ lastConv.from # lastConv.to
     /\ PathProduct(lastConv.defs, lastConv.from, lastConv.to, {}) # <<0, 1>>) =>
        /\ lastConv.r.ok
        /\ lastConv.r.val =
              FMul(lastConv.amount,
                   PathProduct(lastConv.defs, lastConv.from, lastConv.to, {}))

\* a conversion over a path of two declared edges
C9_Witness ==
    /\ lastConv.called
    /\ IsTree(lastConv.defs)
    /\ Len(lastConv.defs) = 2
    /\ lastConv.from # lastConv.to
    /\ ~Edge(lastConv.before, lastConv.from, lastConv.to)
    /\ lastConv.r.ok
    /\ lastConv.r.val = FMul(lastConv.amount, <<6, 1>>)

RECURSIVE Closure(_, _)
Closure(us, R) ==
    LET more == R \cup {y \in DictKeys(us) : \E z \in R : Edge(us, z, y)}
    IN  IF more = R THEN R ELSE Closure(us, more)

ReachableFrom(us, x) == Closure(us, {x})

SeqToSet(sq) == {sq[k] : k \in 1..Len(sq)}

\* C11: for from # to both in the graph, convert returns a value exactly when to
\* can be reached from from along declared edges; otherwise the search expands
\* all it can reach, the queue empties and convert fails with a no-conversion-path
\* error naming both units, the graph and the output buffer being left as they were.
C11_ConvertIffReachable ==
    (/\ lastConv.called
     /\ lastConv.from # lastConv.to
     /\ DictHas(lastConv.before, lastConv.from)
     /\ DictHas(lastConv.before, lastConv.to)) =>
        LET reach == ReachableFrom(lastConv.before, lastConv.from) IN
        /\ lastConv.r.ok <=> lastConv.to \in reach
        /\ ~lastConv.r.ok =>
              /\ lastConv.r.err = NoConversionPath(lastConv.from, lastConv.to)
              /\ lastConv.r.searched
              /\ SeqToSet(lastConv.r.expanded) = reach
              /\ lastConv.after = lastConv.before
              /\ units = lastConv.before
              /\ output = lastConv.outBefore
              /\ calcResult = ParseError(lastConv.r.err)

\* two components of two units each, a line in the buffer, and no path
C11_Witness ==
    /\ lastConv.called
    /\ ~lastConv.r.ok
    /\ lastConv.r.err = NoConversionPath(lastConv.from, lastConv.to)
    /\ Len(lastConv.r.expanded) = 2
    /\ NoSelfDefine
    /\ output # <<>>

\* the records that the pushes among the first n calls saved and no pop has taken yet
RECURSIVE Unmatched(_, _)
Unmatched(log, n) ==
    IF n = 0 THEN <<>>
    ELSE LET rest == Unmatched(log, n - 1)
             kind == ops[log[n].op].kind
         IN  IF ~log[n].ok THEN rest
             ELSE IF kind = "push" THEN Append(rest, log[n].tr)
             ELSE IF kind = "pop" /\ rest # <<>> THEN SubSeq(rest, 1, Len(rest) - 1)
             ELSE rest

C12_WitnessEmpty ==
    \E n \in 1..Len(executed) :
        /\ ops[executed[n].op].kind = "pop"
        /\ executed[n].stack = <<>>
        /\ executed[n].tr # InitialTransform
        /\ gliPc = "done"

\* what the claim computes from the arguments of the first n calls: sums for rotate and
\* translate, products for scale, the one-argument scale using sx for both axes
RECURSIVE Accumulated(_, _)
Accumulated(log, n) ==
    IF n = 0 THEN InitialTransform
    ELSE LET acc == Accumulated(log, n - 1)
             o == ops[log[n].op]
         IN  IF ~log[n].ok THEN acc
             ELSE CASE o.kind = "rotate" -> [acc EXCEPT !.rotation = @ + o.v.n]
                    [] o.kind = "scale" ->
                         [acc EXCEPT !.scale_x = @ * o.v.n,
                                     !.scale_y = @ * (IF o.w = NoneV THEN o.v.n ELSE o.w.n)]
                    [] o.kind = "translate" -> [acc EXCEPT !.tx = @ + o.v.n, !.ty = @ + o.w.n]
                    [] OTHER -> acc

NumericTransforms ==
    \A n \in 1..Len(executed) :
        LET o == ops[executed[n].op]
        IN  /\ o.kind # "pop"
            /\ o.kind \in {"rotate", "scale", "translate"} =>
                  IsNum(o.v) /\ (IsNum(o.w) \/ o.w = NoneV)

ZeroSyExecuted ==
    \E n \in 1..Len(executed) :
        /\ ops[executed[n].op].kind = "scale"
        /\ ops[executed[n].op].w = Num(0)

\* C13: after any executed rotate a, scale sx sy and translate dx dy with numeric
\* arguments (and no pop), rotation is the sum of the a's, tx and ty the sums of the dx's
\* and dy's, scale_x the product of the sx's and scale_y the product of the sy's, for
\* every numeric sy, 0 included; a scale with one argument multiplies both axes by sx
C13_TransformsAccumulate ==
    NumericTransforms => current_transform = Accumulated(executed, Len(executed))

\* the same, for the runs that execute no scale whose second argument is 0
C13_AccumulateWithoutZeroSy ==
    (NumericTransforms /\ ~ZeroSyExecuted) =>
        current_transform = Accumulated(executed, Len(executed))

\* a scale with two arguments and a scale with one have both run
C13_WitnessWithoutZeroSy ==
    /\ NumericTransforms /\ ~ZeroSyExecuted
    /\ \E n \in 1..Len(executed) :
          ops[executed[n].op].kind = "scale" /\ ops[executed[n].op].w = Num(3)
    /\ \E n \in 1..Len(executed) :
          ops[executed[n].op].kind = "scale" /\ ops[executed[n].op].w = NoneV
    /\ current_transform.scale_y = 6

\* the calls of draw closures that appended a shape, in the order of the calls
RECURSIVE DrawCalls(_, _)
DrawCalls(log, n) ==
    IF n = 0 THEN <<>>
    ELSE IF log[n].ok /\ ops[log[n].op].kind = "draw"
         THEN Append(DrawCalls(log, n - 1), log[n])
         ELSE DrawCalls(log, n - 1)

\* the program is repeat N { rotate a  draw ... } and nothing else
IsRepeatOfRotateDraw ==
    /\ Len(program) = 1
    /\ ops[program[1]].kind = "repeat"
    /\ Len(ops[program[1]].body) = 2
    /\ ops[ops[program[1]].body[1]].kind = "rotate"
    /\ IsNum(ops[ops[program[1]].body[1]].v)
    /\ ops[ops[program[1]].body[2]].kind = "draw"

IsPrefix(s, u) == Len(s) <= Len(u) /\ SubSeq(u, 1, Len(s)) = s

\* the handlers of the top-level statements ran in source order, so the closures of the
\* program list are in source order when their numbers increase
InSourceOrder(sq) == \A j, k \in 1..Len(sq) : j < k => sq[j] < sq[k]

\* C15: nothing is executed while the program is compiled; the runner then calls the
\* closures left in the top-level list once each, in the source order of their
\* statements; every call of a draw appends one shape, no other call changes the shapes
C15_TopLevelOnceInOrder ==
    /\ gliPc = "compile" =>
          /\ executed = <<>> /\ shapes = <<>> /\ frames = <<>>
          /\ variables = NoVariables /\ context = InitialContext
          /\ current_transform = InitialTransform /\ transform_stack = <<>>
    /\ gliPc \in {"run", "done", "error"} =>
          /\ InSourceOrder(program)
          /\ IsPrefix(RanSince(executed, 1, 1), program)
          /\ gliPc = "done" => RanSince(executed, 1, 1) = program
          /\ \A n \in 1..Len(executed) :
                LET prev == IF n = 1 THEN <<>> ELSE executed[n - 1].shapesAfter
                    now == executed[n].shapesAfter
                IN  IF executed[n].ok /\ ops[executed[n].op].kind = "draw"
                    THEN Len(now) = Len(prev) + 1 /\ IsPrefix(prev, now)
                    ELSE now = prev
          /\ shapes = IF executed = <<>> THEN <<>>
                      ELSE executed[Len(executed)].shapesAfter

\* a run of three top-level statements is over, one of them a draw that is not the first
C15_Witness ==
    /\ gliPc = "done"
    /\ Len(program) = 3
    /\ RanSince(executed, 1, 1) = program
    /\ ops[program[1]].kind # "draw"
    /\ Len(shapes) >= 1

\* the shapes before the call numbered n
ShapesBefore(n) == IF n = 1 THEN <<>> ELSE executed[n - 1].shapesAfter

\* GLI: a call of a name that no definition registered raises nothing and changes
\* neither the shapes, the variables, the context, the transform record nor the stack,
\* and the run goes on to the end of the program
C16_GliUndefinedCallIsNoOp ==
    /\ \A n \in 1..Len(executed) :
          (ops[executed[n].op].kind = "call" /\ executed[n].target = 0) =>
              /\ executed[n].ok
              /\ executed[n].shapesAfter = ShapesBefore(n)
              /\ executed[n].varsAfter = executed[n].vars
              /\ executed[n].ctxAfter = executed[n].ctx
              /\ executed[n].trAfter = executed[n].tr
              /\ executed[n].stackAfter = executed[n].stack
    /\ gliPc = "done" => RanSince(executed, 1, 1) = program

\* Lexi: a call of a name with no task definition in the program appends the one line
\* [Unknown task: <name>], and only the calls of such names append a line
C16_LexiPlaceholderOnlyForUndefined ==
    lexiPc = "done" =>
        \A k \in 1..Len(lexiCalls) :
            LET c == lexiCalls[k] IN
            /\ ~lexiContext[c.name].defined => c.after = Append(c.before, UnknownTask(c.name))
            /\ c.after # c.before => ~lexiContext[c.name].defined

\* C16: a call of a routine name that was never defined does not abort the run: in GLI
\* it changes no state and the following statements still run; in Lexi it appends
\* exactly one line [Unknown task: <name>], and that line is appended only for names
\* that have no task definition
C16_UndefinedCallDegrades ==
    /\ C16_GliUndefinedCallIsNoOp
    /\ C16_LexiPlaceholderOnlyForUndefined

\* Lexi: the line is appended exactly by the calls that find no task under the name when
\* they are handled (none defined so far), and nothing else is appended by a call
C16_LexiPlaceholderWhenNotYetDefined ==
    \A k \in 1..Len(lexiCalls) :
        LET c == lexiCalls[k] IN
        IF c.task.defined THEN c.after = c.before
        ELSE c.after = Append(c.before, UnknownTask(c.name))

\* GLI: a call of an undefined name has run and a later statement drew a shape
C16_WitnessGli ==
    /\ gliPc = "done"
    /\ \E n \in 1..Len(executed) :
          /\ ops[executed[n].op].kind = "call" /\ executed[n].target = 0
          /\ \E j \in (n + 1)..Len(executed) : ops[executed[j].op].kind = "draw"

\* Lexi: a call of a name that is never defined, and a call of a name defined before it
C16_WitnessLexi ==
    /\ lexiPc = "done"
    /\ \E k \in 1..Len(lexiCalls) :
          ~lexiContext[lexiCalls[k].name].defined /\ lexiCalls[k].after # lexiCalls[k].before
    /\ \E k \in 1..Len(lexiCalls) :
          lexiCalls[k].task.defined /\ lexiCalls[k].after = lexiCalls[k].before

\* the value v names a variable that is not set in vs
NamesUnset(v, vs) == IsStr(v) /\ v.s \in VarNames /\ vs[v.s] = Absent

\* the call numbered n is a conditional on a variable that was never set
IfReadsUnset(n) ==
    LET o == ops[executed[n].op]
    IN  /\ o.kind = "if"
        /\ o.s \in VarNames
        /\ executed[n].vars[o.s] = Absent

\* the call numbered n is a draw with a coordinate that names a variable never set
DrawReadsUnset(n) ==
    LET o == ops[executed[n].op]
    IN  /\ o.kind = "draw"
        /\ NamesUnset(o.v, executed[n].vars) \/ NamesUnset(o.w, executed[n].vars)

\* C17: in GLI v2 a conditional that compares a variable never set, with any of the
\* operators, or a draw that uses one as a coordinate, does not abort the run
C17_UnsetReadDoesNotAbort ==
    version = "v2" =>
        \A n \in 1..Len(executed) :
            (IfReadsUnset(n) \/ DrawReadsUnset(n)) => executed[n].ok

\* the same, for the conditionals whose operator is one of is, ==, !=
C17_UnsetEqualityDoesNotAbort ==
    version = "v2" =>
        \A n \in 1..Len(executed) :
            (IfReadsUnset(n) /\ ops[executed[n].op].cmp \in {"is", "==", "!="}) =>
                executed[n].ok

\* a conditional on an unset variable with == has run and the run went on to its end
C17_WitnessEquality ==
    /\ version = "v2" /\ gliPc = "done"
    /\ \E n \in 1..Len(executed) :
          IfReadsUnset(n) /\ ops[executed[n].op].cmp = "=="

\* a conditional with > on an unset variable has raised TypeError
C17_WitnessOrdering ==
    /\ gliPc = "error" /\ gliResult.err = "TypeError"
    /\ IfReadsUnset(Len(executed))

\* a draw with an unset variable as a coordinate has raised ValueError
C17_WitnessDraw ==
    /\ gliPc = "error" /\ gliResult.err = "ValueError"
    /\ DrawReadsUnset(Len(executed))

\* the definitions of the name that the call c is positioned after: a handler gets its
\* number when its statement has been read to its end
DefinedBefore(name, c) ==
    {d \in 1..Len(ops) : ops[d].kind = "define" /\ ops[d].s = name /\ d < c}

Definitions(name) == {d \in 1..Len(ops) : ops[d].kind = "define" /\ ops[d].s = name}

\* C18: the mapping of a function name is fixed by its definition: a call positioned
\* after a definition of its name runs the body of a definition before it, and never the
\* body of a second definition that comes later in the program
C18_LaterDefinitionLeavesEarlierCalls ==
    \A n \in 1..Len(executed) :
        LET c == executed[n].op
        IN  (ops[c].kind = "call" /\ DefinedBefore(ops[c].s, c) # {}) =>
                executed[n].target \in DefinedBefore(ops[c].s, c)

\* a name with one definition in the program: every call of it runs that definition
C18_SingleDefinitionIsFixed ==
    Compiled =>
        \A n \in 1..Len(executed) :
            LET c == executed[n].op
            IN  (ops[c].kind = "call" /\ Cardinality(Definitions(ops[c].s)) = 1) =>
                    executed[n].target \in Definitions(ops[c].s)

\* a call between two definitions of its name has run the body of the second one
C18_WitnessRedefined ==
    \E n \in 1..Len(executed) :
        LET c == executed[n].op
        IN  /\ ops[c].kind = "call"
            /\ DefinedBefore(ops[c].s, c) # {}
            /\ executed[n].target > c
            /\ lastReturn.called
            /\ lastReturn.body = ops[executed[n].target].body
            /\ Len(shapes) = 1

\* the call numbered n changed nothing of the run-time state
ChangedNothing(n) ==
    /\ executed[n].ok
    /\ executed[n].shapesAfter = ShapesBefore(n)
    /\ executed[n].varsAfter = executed[n].vars
    /\ executed[n].ctxAfter = executed[n].ctx
    /\ executed[n].trAfter = executed[n].tr
    /\ executed[n].stackAfter = executed[n].stack

\* the closures compiled directly in the body of some function definition
BodyOpsOfDefinitions ==
    {k \in 1..Len(ops) : \E d \in 1..Len(ops) : ops[d].kind = "define" /\ InSeq(k, ops[d].body)}

\* C19: a function definition runs none of its body: its closure in the top-level order
\* is a placeholder that changes nothing, the closures of a body are only ever called
\* by a call of the function, so a program that never calls it gets no shape and no
\* change from the body, and each call that returns has run every closure of the body
\* once, in body order
C19_DefinitionRunsNothing ==
    /\ \A n \in 1..Len(executed) :
          /\ ops[executed[n].op].kind = "define" => ChangedNothing(n)
          /\ executed[n].op \in BodyOpsOfDefinitions => executed[n].frame = "call"
    /\ Compiled =>
          \A d \in 1..Len(ops) :
              (ops[d].kind = "define" /\ ops[d].depth = 0) => Count(d, program) = 1
    /\ (\A n \in 1..Len(executed) : ops[executed[n].op].kind # "call") =>
          \A n \in 1..Len(executed) : executed[n].level = 1 \/ executed[n].frame # "call"
    /\ lastReturn.called =>
          lastReturn.ran = ops[executed[lastReturn.entry].target].body

\* a call has returned from a body of two statements, both run, in body order
C19_Witness ==
    /\ lastReturn.called
    /\ Len(ops[executed[lastReturn.entry].target].body) = 2
    /\ lastReturn.ran = ops[executed[lastReturn.entry].target].body
    /\ \E n \in 1..Len(executed) : ops[executed[n].op].kind = "define"

\* a program that defines a function with a draw in its body and never calls it is over
C19_WitnessNeverCalled ==
    /\ gliPc = "done"
    /\ shapes = <<>>
    /\ \E d \in 1..Len(ops) :
          /\ ops[d].kind = "define" /\ InSeq(d, program)
          /\ \E k \in 1..Len(ops) : ops[k].kind = "draw" /\ InSeq(k, ops[d].body)
    /\ \A n \in 1..Len(executed) : ops[executed[n].op].kind # "call"

\* the numbers and variables that the expression e reads
AtomsOf(e) == IF e.op = "div" THEN {e.l, e.r} ELSE {e}

\* the last statement read a variable that no earlier statement of the run assigned
ReadsUnassigned ==
    \E a \in AtomsOf(mathLast.e) : a.op = "var" /\ a.name \notin mathLast.assigned

\* the value of an atom whose variable, if it is one, is assigned
AtomValue(a) == IF a.op = "number" THEN FloatOf(a.n) ELSE mathLast.before[a.name]

\* the last statement divided by an operand whose value is 0
DividesByZero ==
    /\ ~ReadsUnassigned
    /\ mathLast.e.op = "div"
    /\ FIsZero(AtomValue(mathLast.e.r))

\* C20: in TinyMath a statement that reads a variable no earlier statement of the run
\* assigned, or that divides by an operand whose value is 0, makes parse raise
\* ValueError and return no results; a variable assigned by an earlier statement of the
\* run is there for every later statement, which reads the value assigned last
C20_UndefinedAndZeroDivisionRaise ==
    mathLast.op # "none" =>
        /\ \A name \in MathNames :
              name \in mathLast.assigned <=> mathLast.before[name] # Unassigned
        /\ ReadsUnassigned =>
              /\ mathLast.failed /\ mathPc = "idle"
              /\ mathResult = MathError("Undefined variable")
        /\ DividesByZero =>
              /\ mathLast.failed /\ mathPc = "idle"
              /\ mathResult = MathError("Division by zero")
        /\ ~(ReadsUnassigned \/ DividesByZero) =>
              /\ ~mathLast.failed
              /\ mathLast.op = "show_stmt" =>
                    /\ Len(results) = Len(mathLast.resultsBefore) + 2
                    /\ results[Len(results)] = ValueLine(mathLast.before[mathLast.name])
              /\ (mathLast.op = "statement" /\ mathLast.e.op = "var") =>
                    results = Append(mathLast.resultsBefore,
                                     ValueLine(mathLast.before[mathLast.e.name]))

\* a division by a variable that an earlier statement set to 0 has made parse raise
C20_Witness ==
    /\ mathLast.failed
    /\ mathLast.e.op = "div"
    /\ mathLast.e.r.op = "var"
    /\ mathLast.e.r.name \in mathLast.assigned
    /\ mathResult = MathError("Division by zero")

\* in a second run, a read of a variable that only the first run assigned has raised
C20_WitnessUndefined ==
    /\ mathRuns = 2
    /\ mathLast.failed
    /\ mathLast.op = "show_stmt"
    /\ mathResult = MathError("Undefined variable")

\* a later statement has read the value that an earlier one assigned
C20_WitnessReadable ==
    /\ mathLast.op = "statement" /\ mathLast.e.op = "var" /\ ~mathLast.failed
    /\ mathLast.before[mathLast.e.name] = FloatOf(MaxNumber)
    /\ results[Len(results)] = ValueLine(FloatOf(MaxNumber))

\* the lines that the statements of a block appended when they were visited
BodyLines(b) == SubSeq(b.out1, Len(b.out0) + 1, Len(b.out1))

RECURSIVE Times(_, _)
Times(sq, n) == IF n = 0 THEN <<>> ELSE sq \o Times(sq, n - 1)

\* C21: in Lexi every statement of the body of repeat N { ... } takes effect once per
\* pass, N times in all: the lines of the body are in the output N times, and the loop
\* variable i holds the number of the last pass when the block is over
C21_LexiRepeatRunsBodyPerPass ==
    \A k \in 1..Len(lexiBlocks) :
        LET b == lexiBlocks[k]
        IN  b.kind = "repeat" =>
                /\ b.out2 = b.out0 \o Times(BodyLines(b), b.count)
                /\ b.count > 0 => b.values2["i"] = Num(b.count - 1)

\* what repeat_block does: the lines of the body are in the output once, whatever the
\* count, and i is set to every pass number in turn after the body has run
C21_LexiRepeatBodyRunsOnce ==
    \A k \in 1..Len(lexiBlocks) :
        LET b == lexiBlocks[k]
        IN  b.kind = "repeat" =>
                /\ b.out2 = b.out1
                /\ IsPrefix(b.out0, b.out1)
                /\ b.values2["i"] = IF b.count > 0 THEN Num(b.count - 1) ELSE b.values1["i"]
                /\ b.memory2 = b.memory1

\* repeat 2 { say ... } is over and the output has the one line
C21_WitnessOnce ==
    \E k \in 1..Len(lexiBlocks) :
        /\ lexiBlocks[k].kind = "repeat" /\ lexiBlocks[k].count = 2
        /\ lexiBlocks[k].out0 = <<>>
        /\ lexiOutput = <<SayLine("a")>>
        /\ lexiPc = "done"

\* C22: in Lexi the statements inside if name is value { ... } take effect only when the
\* context value of name equals value where the if stands: when it does not, the body
\* appends nothing and changes no variable and no remembered key
C22_LexiIfBodyOnlyWhenTrue ==
    \A k \in 1..Len(lexiBlocks) :
        LET b == lexiBlocks[k]
        IN  (b.kind = "if" /\ ~b.heldAtOpen) =>
                /\ b.out2 = b.out0
                /\ b.values2 = b.values0
                /\ b.memory2 = b.memory0

\* what if_block does: the handler itself changes nothing, whatever the condition
C22_LexiIfHandlerChangesNothing ==
    \A k \in 1..Len(lexiBlocks) :
        LET b == lexiBlocks[k]
        IN  b.kind = "if" =>
                b.out2 = b.out1 /\ b.values2 = b.values1 /\ b.memory2 = b.memory1

\* set mood sad, then if mood is happy { say ... }: the line is in the output
C22_WitnessFalse ==
    \E k \in 1..Len(lexiBlocks) :
        /\ lexiBlocks[k].kind = "if" /\ ~lexiBlocks[k].heldAtOpen /\ ~lexiBlocks[k].holds
        /\ lexiBlocks[k].values0["mood"] = Str("sad")
        /\ lexiBlocks[k].out0 = <<>>
        /\ lexiOutput # <<>>
        /\ lexiPc = "done"

WriteOps == {"set", "delete", "clear"}

\* a JSONFileMemory constructed right after a write of an auto_save instance
ConstructedAfterWrite ==
    /\ memLast.op = "init"
    /\ memLast.prevOp \in WriteOps
    /\ memLast.prevAuto

\* what a new instance returns is what the writing instance returns, None for what is not
\* in its store
ReadsBack ==
    \A key \in MemKeys : Get(memLast.store, key) = Get(memLast.prevStore, key)

\* C23 as stated: with auto_save, after every completed set, delete or clear the backing
\* file holds exactly the in-memory mapping, and a JSONFileMemory constructed afterwards
\* returns the same value for every key, None for the removed ones.
C23_FileHoldsStoreAfterEveryWrite ==
    /\ (memLast.op \in WriteOps /\ memLast.auto_save)
          => /\ memLast.file.state = "json"
             /\ JsonLoad(memLast.file.text) = memLast.store
    /\ ConstructedAfterWrite => ReadsBack

\* C23, amended: with auto_save, after every completed set or clear, and after a delete of
\* a key that was in the store, the backing file holds exactly the in-memory mapping; a
\* delete of a key that was not there writes nothing, so a file that was missing or was not
\* JSON stays as it was. In every case a JSONFileMemory constructed afterwards returns the
\* same value for every key, None for the removed ones.
C23_FileReadsBackAsStore ==
    /\ (memLast.op \in WriteOps /\ memLast.auto_save)
          => /\ Load(memLast.file, EmptyStore) = memLast.store
             /\ (memLast.op \in {"set", "clear"} \/ memLast.saved)
                   => memLast.file = JsonFile(JsonDump(memLast.store))
    /\ ConstructedAfterWrite => ReadsBack

\* a second instance is constructed after a delete and reads one key back, None for the other
C23_Witness ==
    /\ ConstructedAfterWrite
    /\ memLast.inst = 2
    /\ memLast.prevOp = "delete"
    /\ Get(memLast.store, "k1") = NoneV
    /\ Get(memLast.store, "k2") = Str("v")

\* a delete of a key that is not in the store leaves a file that is not JSON as it was
C23_WitnessNothingSaved ==
    /\ memLast.op = "delete"
    /\ memLast.auto_save
    /\ memLast.file = CorruptFile

\* the keys an operation is called to change
Targets(last) ==
    CASE last.op = "clear" -> MemKeys
      [] last.op \in {"set", "delete"} -> {last.key}
      [] OTHER -> {}

\* C29 as stated: with two instances open on one file, a set, delete or clear of one of
\* them does not remove or revert a key that the other wrote to the file after the first
\* last loaded it.
C29_NoCompletedWriteLost ==
    (memLast.op \in WriteOps /\ memLast.saved)
      => \A key \in MemKeys \ Targets(memLast) :
            memLast.unseen[key] # Absent
              => JsonLoad(memLast.file.text)[key] = memLast.unseen[key]

\* the calls that _repeat made of the operations of its body
BodyCalls == {k \in 1..Len(executed) : executed[k].frame = "repeat"}

\* C24 as stated: on pass k of a repeat block every operation of the body observes the
\* loop index k, also after a nested repeat block of the same body and whatever ran in
\* earlier passes.
C24_BodyObservesPassIndex ==
    \A k \in BodyCalls : executed[k].i = IndexOfPass(executed[k].pass)

\* what _repeat does keep: in a body with no repeat block and no call among its
\* operations, every operation observes the index of the pass
C24_FlatBodyObservesPassIndex ==
    \A k \in BodyCalls :
        (\A b \in 1..Len(executed[k].body) :
            ops[executed[k].body[b]].kind \notin {"repeat", "call"})
          => executed[k].i = IndexOfPass(executed[k].pass)

\* a draw that reads $i after a nested repeat, on the second pass of the outer block
C24_WitnessAfterNested ==
    \E k \in BodyCalls :
        /\ ops[executed[k].op].kind = "draw"
        /\ executed[k].pass = 1
        /\ executed[k].level = 2
        /\ \E b \in 1..Len(executed[k].body) : ops[executed[k].body[b]].kind = "repeat"
        /\ executed[k].i # 1

\* the calls of the closure of an if statement that raised nothing
IfCalls == {k \in 1..Len(executed) : ops[executed[k].op].kind = "if" /\ executed[k].ok}

\* the value of the tested name when the call numbered k was made
LeftAt(k) ==
    LET e == executed[k]
        name == ops[e.op].s
    IN  IF name \in VarNames /\ e.vars[name] # Absent THEN e.vars[name]
        ELSE IF name \in DOMAIN e.ctx THEN e.ctx[name]
        ELSE NoneV

\* whether the condition held when the call numbered k was made; the values compared to
\* are numbers
HeldAt(k) ==
    LET l == LeftAt(k)
        r == ops[executed[k].op].v
    IN  CASE ops[executed[k].op].cmp = "==" -> l = r
          [] ops[executed[k].op].cmp = ">" -> l.n > r.n
          [] OTHER -> FALSE

\* the operations the condition selects
Selected(k) ==
    IF HeldAt(k) THEN ops[executed[k].op].body ELSE ops[executed[k].op].els

\* the call numbered k has returned: a call was made at its level or above since, or the
\* run is over, or the frame of its branch is gone
Returned(k) ==
    \/ \E j \in (k + 1)..Len(executed) : executed[j].level <= executed[k].level
    \/ gliPc = "done"
    \/ gliPc = "run" /\ Len(frames) <= executed[k].level

\* the calls the call numbered k made itself, up to its return
RanBy(k) ==
    LET L == executed[k].level
        RECURSIVE Pick(_)
        Pick(j) == IF j > Len(executed) \/ executed[j].level <= L THEN <<>>
                   ELSE IF executed[j].level = L + 1 THEN <<executed[j].op>> \o Pick(j + 1)
                   ELSE Pick(j + 1)
    IN  Pick(k + 1)

\* C25: a conditional tests the values current when it executes, then runs all of the
\* operations of the then-branch when the condition holds and all of the else-branch
\* otherwise, never both and never part of one; in a loop the branch can differ by pass.
C25_BranchFollowsConditionAtExecution ==
    \A k \in IfCalls :
        /\ IsPrefix(RanBy(k), Selected(k))
        /\ Returned(k) => RanBy(k) = Selected(k)

\* one conditional of a loop body runs its else-branch on one pass and its then-branch on
\* the next
C25_Witness ==
    \E k \in IfCalls, j \in IfCalls :
        /\ k < j
        /\ executed[k].op = executed[j].op
        /\ executed[k].frame = "repeat"
        /\ Returned(k) /\ Returned(j)
        /\ ~HeldAt(k) /\ HeldAt(j)
        /\ RanBy(k) = ops[executed[k].op].els /\ RanBy(k) # <<>>
        /\ RanBy(j) = ops[executed[j].op].body /\ RanBy(j) # <<>>

\* the calls of the closure of a call statement that raised nothing
CallCalls == {k \in 1..Len(executed) : ops[executed[k].op].kind = "call" /\ executed[k].ok}

\* the closure numbered id was never called
NeverCalled(id) == \A k \in 1..Len(executed) : executed[k].op # id

\* C30: functions are registered while the program is compiled, before any operation
\* executes, and a call looks the name up when it executes: every definition of the
\* program is registered when the run starts, wherever it stands, and a call of a
\* registered name runs the registered body.
C30_RegisteredAtCompileLookedUpAtCall ==
    /\ gliPc = "compile" => executed = <<>>
    /\ gliPc \in {"run", "done", "error"}
         => \A id \in 1..Len(ops) :
               ops[id].kind = "define"
                 => /\ functions[ops[id].s] # 0
                    /\ ops[functions[ops[id].s]].kind = "define"
                    /\ ops[functions[ops[id].s]].s = ops[id].s
    /\ \A k \in CallCalls :
          /\ executed[k].target = functions[ops[executed[k].op].s]
          /\ executed[k].target # 0
                => /\ IsPrefix(RanBy(k), ops[executed[k].target].body)
                   /\ Returned(k) => RanBy(k) = ops[executed[k].target].body

\* a call that stands before the definition runs the body
C30_Witness ==
    \E k \in CallCalls :
        /\ executed[k].target > executed[k].op
        /\ Returned(k)
        /\ RanBy(k) # <<>>
        /\ Len(shapes) > 0

\* a function defined in a branch that was not taken is called and draws
C30_WitnessUntakenBranch ==
    \E k \in CallCalls :
        /\ executed[k].target # 0
        /\ ops[executed[k].target].owner # 0
        /\ ops[ops[executed[k].target].owner].kind = "if"
        /\ NeverCalled(executed[k].target)
        /\ gliPc = "done"
        /\ Len(shapes) > 0

\* a function defined in a repeat of count 0 is called and draws
C30_WitnessRepeatZero ==
    \E k \in CallCalls :
        /\ executed[k].target # 0
        /\ ops[executed[k].target].owner # 0
        /\ ops[ops[executed[k].target].owner].kind = "repeat"
        /\ ops[ops[executed[k].target].owner].n = 0
        /\ NeverCalled(executed[k].target)
        /\ gliPc = "done"
        /\ Len(shapes) > 0

C26_WitnessLineBreak ==
    /\ done
    /\ current_step = LongProgram + 1
    /\ current_step < max_steps
    /\ envProgram[current_step] = "\n"

\* a reset of an episode that was done
C26_WitnessReset ==
    /\ envLast.op = "reset"
    /\ envLast.done
    /\ envLast.step > 0

\* the walks of h hops from x to y along the edges of the graph g
RECURSIVE Walks(_, _, _, _)
Walks(g, x, y, h) ==
    IF h = 0 THEN (IF x = y THEN {<<x>>} ELSE {})
    ELSE UNION {{<<x>> \o w : w \in Walks(g, n, y, h - 1)} :
                   n \in {m \in DictKeys(g) : Edge(g, x, m)}}

\* the least number of hops from x to y, 0 when there is no walk
MinHops(g, x, y) ==
    LET hs == {h \in 1..Cardinality(DictKeys(g)) : Walks(g, x, y, h) # {}}
    IN  IF hs = {} THEN 0 ELSE CHOOSE h \in hs : \A other \in hs : h <= other

\* the place of the k-th edge of a walk among the edges of the unit it leaves
EdgePlace(g, w, k) == DictIdx(DictGet(g, w[k]), w[k + 1])

\* v comes before w in the order in which a first-in first-out search makes its entries:
\* at the first hop where they part, v takes the edge that was inserted earlier
EnqueuedBefore(g, v, w) ==
    \E k \in 1..(Len(v) - 1) :
        /\ \A j \in 1..(k - 1) : v[j + 1] = w[j + 1]
        /\ v[k + 1] # w[k + 1]
        /\ EdgePlace(g, v, k) < EdgePlace(g, w, k)

\* the product of the factors along a walk
RECURSIVE WalkProduct(_, _, _)
WalkProduct(g, w, k) ==
    IF k >= Len(w) THEN <<1, 1>>
    ELSE FMul(Factor(g, w[k], w[k + 1]), WalkProduct(g, w, k + 1))

\* a conversion between two different units of the graph that a walk connects
Routed ==
    /\ lastConv.called
    /\ lastConv.from # lastConv.to
    /\ DictHas(lastConv.before, lastConv.from)
    /\ DictHas(lastConv.before, lastConv.to)
    /\ MinHops(lastConv.before, lastConv.from, lastConv.to) > 0

\* C27: for from # to both known and connected, convert returns the amount times the
\* product of the factors along a walk of the least number of hops; among those walks
\* the one enqueued first is used, so an edge from from to to wins over any longer walk.
C27_MinHopFirstEnqueued ==
    Routed =>
        LET g == lastConv.before
            shortest == Walks(g, lastConv.from, lastConv.to,
                              MinHops(g, lastConv.from, lastConv.to))
            first == CHOOSE w \in shortest :
                        \A other \in shortest \ {w} : EnqueuedBefore(g, w, other)
        IN  /\ \E w \in shortest : \A other \in shortest \ {w} : EnqueuedBefore(g, w, other)
            /\ lastConv.r.ok
            /\ lastConv.r.val = FMul(lastConv.amount, WalkProduct(g, first, 1))
            /\ Edge(g, lastConv.from, lastConv.to)
                  => lastConv.r.val =
                        FMul(lastConv.amount, Factor(g, lastConv.from, lastConv.to))

\* two walks of two hops with different products, and a third of three hops
C27_Witness ==
    /\ Routed
    /\ MinHops(lastConv.before, lastConv.from, lastConv.to) = 2
    /\ \E v, w \in Walks(lastConv.before, lastConv.from, lastConv.to, 2) :
          WalkProduct(lastConv.before, v, 1) # WalkProduct(lastConv.before, w, 1)
    /\ lastConv.r.ok

\* an edge from from to to and a walk of two hops with another product
C27_WitnessDirect ==
    /\ Routed
    /\ Edge(lastConv.before, lastConv.from, lastConv.to)
    /\ \E w \in Walks(lastConv.before, lastConv.from, lastConv.to, 2) :
          WalkProduct(lastConv.before, w, 1)
              # Factor(lastConv.before, lastConv.from, lastConv.to)
    /\ lastConv.r.ok

\* the entries made when the units of exp were expanded one after the other: one for
\* every neighbour not expanded by then
RECURSIVE EntriesMade(_, _, _)
EntriesMade(g, exp, k) ==
    IF k > Len(exp) THEN 0
    ELSE Cardinality({n \in DictKeys(DictGet(g, exp[k])) :
                         n \notin {exp[j] : j \in 1..k}})
             + EntriesMade(g, exp, k + 1)

\* C28: the search ends for every unit graph, with cycles and self-loops as well: each
\* unit is expanded at most once, the queue entries ever made are the first one and one
\* per neighbour not yet expanded, at most one per edge, and the loop ends by dequeuing
\* the target or by emptying the queue.
C28_SearchTerminates ==
    (lastConv.called /\ lastConv.r.searched) =>
        LET g == lastConv.before
            exp == lastConv.r.expanded
        IN  /\ \A j, k \in 1..Len(exp) : j # k => exp[j] # exp[k]
            /\ SeqToSet(exp) \subseteq DictKeys(g)
            /\ lastConv.r.enq = 1 + EntriesMade(g, exp, 1)
            /\ lastConv.r.enq <= 1 + Cardinality({e \in DictKeys(g) \X DictKeys(g) :
                                                     Edge(g, e[1], e[2])})
            /\ lastConv.r.ok => lastConv.to \notin SeqToSet(exp)
            /\ ~lastConv.r.ok =>
                  /\ lastConv.r.err = NoConversionPath(lastConv.from, lastConv.to)
                  /\ SeqToSet(exp) = ReachableFrom(g, lastConv.from)

\* a search over a cycle of three units that empties the queue
C28_Witness ==
    /\ lastConv.called
    /\ lastConv.r.searched
    /\ ~lastConv.r.ok
    /\ Len(lastConv.r.expanded) = 3
    /\ \A x, y \in SeqToSet(lastConv.r.expanded) : x # y => Edge(lastConv.before, x, y)

\* a search that expands a unit with an edge to itself and then dequeues the target
C28_WitnessSelfLoop ==
    /\ lastConv.called
    /\ lastConv.r.searched
    /\ lastConv.r.ok
    /\ \E x \in SeqToSet(lastConv.r.expanded) : Edge(lastConv.before, x, x)

====
